---- MODULE Spec2Model ----
(***************************************************************************)
(* The real-time messaging gateway of the RetroChat backend: the socket    *)
(* gateway (EventsGateway), the presence registry it keeps in the Redis    *)
(* store (RedisService) and the persistence calls its handlers make.       *)
(*                                                                         *)
(* Every handler is asynchronous.  One action of the model is one piece of *)
(* a handler between two suspension points: the answer of the awaited      *)
(* store, database or session call together with the synchronous           *)
(* continuation that runs up to the next await.                            *)
(***************************************************************************)
EXTENDS Integers, Sequences, FiniteSets, TLC

(***************************************************************************)
(* Bounds of the model.                                                    *)
(***************************************************************************)
NumSockets == 3
MaxTasks == 1
MaxDisconnects == 1
MaxAdds == 2
MaxLeaves == 1
MaxChunks == 2
MaxSends == 2

Sockets == 1..NumSockets
Users == {"u1", "u2", "u3"}
NoUser == "none"
NoSocket == 0
AI_FRIEND_USER_ID == "kirhost"
GROUP_AI_USER_ID == "group-ai-g1"
AddIds == 1..MaxAdds

\* StyleProfileService.shouldUpdateProfile: "Update every 10 messages"
USER_UPDATE_INTERVAL == 10
\* GroupAIProfileService UPDATE_INTERVAL
UPDATE_INTERVAL == 20
\* AIFriendService MINIMUM_MESSAGES_REQUIRED
MINIMUM_MESSAGES_REQUIRED == 10
\* GroupAIService MINIMUM_MESSAGES_REQUIRED
GROUP_MINIMUM_MESSAGES_REQUIRED == 20

VARIABLES
    sock,        \* transport state of each socket: "new", "live", "closed"
    data,        \* client.data.userId of each socket (NoUser = undefined)
    connPc,      \* position of handleConnection(s)
    discPc,      \* position of handleDisconnect(s)
    discUser,    \* handleDisconnect's local userId
    discSock,    \* setUserOffline's local socketId
    userSocket,  \* Redis keys user:<U>:socket
    socketUser,  \* Redis keys socket:<S>:user
    messages,    \* rows of the messages table inserted by the run, in order
    groupMessages,   \* rows of group_messages inserted by the run, in order
    groupMembers,    \* user ids of the group_members rows of the group, in order
    styleProfiles,   \* style_profiles row of each user
    groupStyleProfile,  \* group_style_profiles row of the group
    adds,        \* the GroupsService.addMember invocations
    nLeaves,     \* number of GroupsService.leaveGroup calls so far
    tasks,       \* the inbound-event handler invocations
    nTasks,      \* number of handler invocations so far
    statusOut,   \* the user:status broadcasts made on behalf of each socket, in order
    lastReg,     \* history: handle of the latest register of a user, NoSocket
                 \*   once a deregister of that user took effect after it
    fenced,      \* history: the handle a registry with fencing would hold
    rejected,    \* history: sockets whose session validation failed
    cleanClose   \* history: sockets closed by the client after their handshake ended

vars == <<sock, data, connPc, discPc, discUser, discSock, userSocket,
          socketUser, messages, groupMessages, groupMembers, styleProfiles,
          groupStyleProfile, adds, nLeaves, tasks, nTasks, statusOut,
          lastReg, fenced, rejected, cleanClose>>

connVars == <<sock, data, connPc, discPc, discUser, discSock>>
redisVars == <<userSocket, socketUser>>
msgVars == <<messages, groupMessages>>
memberVars == <<groupMembers, adds, nLeaves>>
profileVars == <<styleProfiles, groupStyleProfile>>
dbVars == <<msgVars, memberVars, profileVars>>
taskVars == <<tasks, nTasks>>
histVars == <<lastReg, fenced, rejected, cleanClose>>

\* The handler invocations of the run: one slot per inbound event the run receives.
TaskIds == DOMAIN tasks

(***************************************************************************)
(* Emissions.  Each handler invocation keeps the sequence of the events it *)
(* emitted (tasks[t].out, statusOut[s]).  An event of a handler goes to    *)
(* the room of one socket id, which holds that socket while it is          *)
(* connected and nobody afterwards.  rcv is the set of connections the     *)
(* event reaches.                                                          *)
(***************************************************************************)
LiveSockets == {s \in Sockets : sock[s] = "live"}

\* payloads: a stored message (by id), an error text, the text streamed so far
Message(id) == [id |-> id, error |-> "", text |-> <<>>]

ErrorPayload(error) == [id |-> 0, error |-> error, text |-> <<>>]

ChunkPayload(fullResponse) == [id |-> 0, error |-> "", text |-> fullResponse]

Emission(name, room, user, msg, task) ==
    [name |-> name, room |-> room, rcv |-> {room} \cap LiveSockets,
     user |-> user, msg |-> msg, task |-> task]

\* this.server.emit('user:status', {userId, status}): to every connected socket
ServerEmitStatus(userId, status) ==
    [name |-> "user:status", userId |-> userId, status |-> status]

\* Variant of ClientEmit: the event goes to the socket registered for the
\* sender, as emitToUser would send it.
ClientEmit_ToRegistered(t, name, msg) ==
    Emission(name, userSocket[tasks[t].from], tasks[t].from, msg, t)

\* client.emit(event, data) of handler invocation t
ClientEmit(t, name, msg) ==
    Emission(name, tasks[t].sock, tasks[t].from, msg, t)

(***************************************************************************)
(* RedisService                                                            *)
(***************************************************************************)
GetSocketByUser(userId) ==
    IF userId \in DOMAIN userSocket THEN userSocket[userId] ELSE NoSocket

IsUserOnline(userId) == userSocket[userId] # NoSocket

GetUserBySocket(socketId) == socketUser[socketId]

\* Variant of SetUserSocketKey: the key is set only when absent (SET NX),
\* so the first registration wins.
SetUserSocketKey_FirstWins(userId, socketId) ==
    userSocket' = [userSocket EXCEPT ![userId] =
                     IF @ = NoSocket THEN socketId ELSE @]

\* first store write of setUserOnline: SET user:<U>:socket <S>
SetUserSocketKey(userId, socketId) ==
    userSocket' = [userSocket EXCEPT ![userId] = socketId]

\* second store write of setUserOnline: SET socket:<S>:user <U>
SetSocketUserKey(socketId, userId) ==
    socketUser' = [socketUser EXCEPT ![socketId] = userId]

\* Variant of DelUserSocketKey: the key is deleted only when it does not
\* name an open socket.
DelUserSocketKey_KeepNewer(userId) ==
    userSocket' = [userSocket EXCEPT ![userId] =
                     IF @ # NoSocket /\ sock[@] = "live" THEN @ ELSE NoSocket]

\* Variant of DelUserSocketKey: the forward key is left in place.
DelUserSocketKey_Skip(userId) ==
    UNCHANGED userSocket

\* last store write of setUserOffline: DEL user:<U>:socket
DelUserSocketKey(userId) ==
    userSocket' = [userSocket EXCEPT ![userId] = NoSocket]

(***************************************************************************)
(* EventsGateway.emitToUser: look the user's socket up, emit to its room.  *)
(* The result is the sequence of emissions made (empty = returned false).  *)
(***************************************************************************)
EmitToUser(userId, name, msg, t) ==
    LET socketId == GetSocketByUser(userId)
    IN  IF socketId # NoSocket
        THEN <<Emission(name, socketId, userId, msg, t)>>
        ELSE <<>>

(***************************************************************************)
(* Style analysis and the rendering of the style prompt.  The texts of the  *)
(* runs are single words, which have no phrase of two to four words, no     *)
(* emoji and no tone keyword; the features that vary are the average        *)
(* length and, for a group, the contributions of its members.               *)
(***************************************************************************)
\* stylePrompt '' as the resets write it, and the null of a row that was
\* inserted without one
NoPrompt == <<>>

\* AIStyleAnalysisService.getEmptyAnalysis
EmptyAnalysis == [commonPhrases |-> <<>>, averageMessageLength |-> 0]

\* GroupAIStyleAnalysisService.getEmptyAnalysis
EmptyGroupAnalysis ==
    [commonPhrases |-> <<>>, averageMessageLength |-> 0,
     memberContributions |-> <<>>]

\* content.length summed over the chunks that make up a text
RECURSIVE TextLength(_)
TextLength(content) ==
    IF content = <<>> THEN 0
    ELSE Len(Head(content)) + TextLength(Tail(content))

\* calculateAverageMessageLength: Math.round(totalLength / messages.length)
CalculateAverageMessageLength(n, totalLength) ==
    IF n = 0 THEN 0 ELSE (2 * totalLength + n) \div (2 * n)

\* AIStyleAnalysisService.analyzeMessages over n messages of the given
\* total length
AnalyzeMessages(n, totalLength) ==
    IF n = 0 THEN EmptyAnalysis
    ELSE [commonPhrases |-> <<>>,
          averageMessageLength |-> CalculateAverageMessageLength(n, totalLength)]

\* StyleProfileService.generateStylePrompt: the lines of the prompt
GenerateStylePrompt(analysis) ==
    <<"You are mimicking the chat style of a user. Here are their characteristics:",
      "">>
    \o (IF Len(analysis.commonPhrases) > 0
        THEN <<"Common phrases: ">> \o analysis.commonPhrases ELSE <<>>)
    \o <<"Average message length: ", ToString(analysis.averageMessageLength),
         " characters", "",
         "Respond to messages in this user's style, keeping responses natural and conversational.">>

\* GroupAIProfileService.generateGroupStylePrompt: the lines of the prompt.
\* The display name of a member is its user id.
GenerateGroupStylePrompt(analysis, members) ==
    <<"You are an AI member of a group chat. You should mimic the collective chat style of the group members.",
      "">>
    \o (IF Len(members) > 0
        THEN <<"Group has ", ToString(Len(members)), " members: ">> \o members
             \o <<"">>
        ELSE <<>>)
    \o (IF Len(analysis.commonPhrases) > 0
        THEN <<"Common group phrases: ">> \o analysis.commonPhrases ELSE <<>>)
    \o <<"Average message length: ", ToString(analysis.averageMessageLength),
         " characters", "",
         "Respond naturally as a member of this group, reflecting the group's collective style.">>

(***************************************************************************)
(* Handler invocations                                                     *)
(***************************************************************************)
FreeTask == [kind |-> "free", sock |-> NoSocket, from |-> NoUser,
             to |-> NoUser, pc |-> "free", msg |-> 0, out |-> <<>>,
             mem |-> <<>>, i |-> 0, full |-> <<>>, sent |-> 0,
             job |-> "none", last |-> 0, cnt |-> 0, found |-> FALSE,
             len |-> 0, feat |-> EmptyAnalysis, gfeat |-> EmptyGroupAnalysis,
             err |-> "none"]

FreeAdd == [pc |-> "free", user |-> NoUser]

NextMsgId == Len(messages) + Len(groupMessages) + 1

\* content.length of each message sent before the run
PriorContentLength == 10

NoProfile ==
    [exists |-> FALSE, messageCount |-> 0, features |-> EmptyAnalysis,
     stylePrompt |-> NoPrompt]

NoGroupProfile ==
    [exists |-> FALSE, messageCount |-> 0, features |-> EmptyGroupAnalysis,
     stylePrompt |-> NoPrompt]

\* the row of a user whose first message was analysed
FirstProfile ==
    [exists |-> TRUE, messageCount |-> 1,
     features |-> AnalyzeMessages(1, PriorContentLength),
     stylePrompt |-> GenerateStylePrompt(AnalyzeMessages(1, PriorContentLength))]

\* the row createGroup inserts: values({ groupId }) and the column defaults
CreatedGroupProfile ==
    [exists |-> TRUE, messageCount |-> 0, features |-> EmptyGroupAnalysis,
     stylePrompt |-> NoPrompt]

(***************************************************************************)
(* The database before the run.  The group was made by createGroup for u1  *)
(* (creator, admin), u2 and u3, which also inserted its style profile row  *)
(* with the column defaults and the group's AI member.  u1 has a profile   *)
(* computed at its first message and has sent nine more since; u2 has not  *)
(* sent a message yet; u3 has a profile computed at its first message and   *)
(* has sent four more since.                                               *)
(***************************************************************************)
PriorDirect == [u \in Users |-> CASE u = "u1" -> 10 [] u = "u2" -> 0 [] OTHER -> 5]

PriorGroup == 0

InitDb ==
    /\ messages = <<>>
    /\ groupMessages = <<>>
    /\ groupMembers = <<"u1", "u2", "u3", GROUP_AI_USER_ID>>
    /\ styleProfiles = [u \in Users |->
                          IF u = "u2" THEN NoProfile
                          ELSE FirstProfile]
    /\ groupStyleProfile = CreatedGroupProfile
    /\ adds = [a \in AddIds |-> FreeAdd]
    /\ nLeaves = 0
    /\ tasks = [t \in 1..MaxTasks |-> FreeTask]
    /\ nTasks = 0

Init ==
    /\ sock = [s \in Sockets |-> "new"]
    /\ data = [s \in Sockets |-> NoUser]
    /\ connPc = [s \in Sockets |-> "idle"]
    /\ discPc = [s \in Sockets |-> "idle"]
    /\ discUser = [s \in Sockets |-> NoUser]
    /\ discSock = [s \in Sockets |-> NoSocket]
    /\ userSocket = [u \in Users |-> NoSocket]
    /\ socketUser = [s \in Sockets |-> NoUser]
    /\ InitDb
    /\ statusOut = [s \in Sockets |-> <<>>]
    /\ lastReg = [u \in Users |-> NoSocket]
    /\ fenced = [u \in Users |-> NoSocket]
    /\ rejected = {}
    /\ cleanClose = {}

\* User ids are names: a session belongs to a user seen before or to the
\* first user not seen yet.
UserOrder == <<"u1", "u2", "u3">>

FreshOrKnownUsers ==
    LET known == {data[s] : s \in Sockets} \ {NoUser}
        unknown == {k \in 1..Len(UserOrder) : UserOrder[k] \notin known}
    IN  known \cup {UserOrder[k] : k \in {j \in unknown : \A l \in unknown : j <= l}}

\* Sockets the client side has closed.
ClientClosed == {s \in Sockets : sock[s] = "closed" /\ s \notin rejected}

\* Variant of HandleDisconnectStart: the offline broadcast is made whether or
\* not the socket carries a userId.
HandleDisconnectStart_Unguarded(s) ==
    /\ discUser' = [discUser EXCEPT ![s] = data[s]]
    /\ discPc' = [discPc EXCEPT ![s] = IF data[s] # NoUser THEN "get" ELSE "done"]
    /\ statusOut' = [statusOut EXCEPT ![s] =
                       IF data[s] = NoUser
                       THEN Append(@, ServerEmitStatus(data[s], "offline"))
                       ELSE @]

\* handleDisconnect up to its first await: read client.data.userId and, with
\* a userId, call setUserOffline (whose first step is GET user:<U>:socket).
HandleDisconnectStart(s) ==
    /\ discUser' = [discUser EXCEPT ![s] = data[s]]
    /\ discPc' = [discPc EXCEPT ![s] = IF data[s] # NoUser THEN "get" ELSE "done"]
    /\ UNCHANGED statusOut

(***************************************************************************)
(* handleConnection                                                        *)
(***************************************************************************)
\* A client opens a socket: the gateway calls handleConnection, which
\* awaits auth.api.getSession.
Connect(s) ==
    /\ sock[s] = "new"
    /\ IF s = 1 THEN TRUE ELSE sock[s - 1] # "new"   \* ids are fresh names, taken in order
    /\ sock' = [sock EXCEPT ![s] = "live"]
    /\ connPc' = [connPc EXCEPT ![s] = "session"]
    /\ UNCHANGED <<data, discPc, discUser, discSock, redisVars, dbVars,
                   taskVars, statusOut, histVars>>

\* getSession answered with no session (or no session.user):
\* client.disconnect(); return.  The forced disconnect runs handleDisconnect,
\* which finds no client.data.userId and does nothing.
ConnSessionInvalid(s) ==
    /\ connPc[s] = "session"
    /\ connPc' = [connPc EXCEPT ![s] = "done"]
    /\ sock' = [sock EXCEPT ![s] = "closed"]
    /\ IF sock[s] = "live"
       THEN HandleDisconnectStart(s)
       ELSE UNCHANGED <<discUser, discPc, statusOut>>
    /\ rejected' = rejected \cup {s}
    /\ UNCHANGED <<data, discSock, redisVars, dbVars, taskVars,
                   lastReg, fenced, cleanClose>>

ConnSessionValid_Announces(s, userId) ==
    /\ connPc[s] = "session"
    /\ userId \in FreshOrKnownUsers
    /\ data' = [data EXCEPT ![s] = userId]
    /\ connPc' = [connPc EXCEPT ![s] = "set1"]
    /\ statusOut' = [statusOut EXCEPT ![s] =
                       Append(@, ServerEmitStatus(userId, "online"))]
    /\ UNCHANGED <<sock, discPc, discUser, discSock, redisVars, dbVars,
                   taskVars, histVars>>

\* getSession answered with a session of user userId:
\* client.data.userId = userId; setUserOnline issues its first store write.
ConnSessionValid(s, userId) ==
    /\ connPc[s] = "session"
    /\ userId \in FreshOrKnownUsers
    /\ data' = [data EXCEPT ![s] = userId]
    /\ connPc' = [connPc EXCEPT ![s] = "set1"]
    /\ UNCHANGED <<sock, discPc, discUser, discSock, redisVars, dbVars,
                   taskVars, statusOut, histVars>>

\* setUserOnline: SET user:<U>:socket done, SET socket:<S>:user issued.
ConnSetOnline1(s) ==
    /\ connPc[s] = "set1"
    /\ SetUserSocketKey(data[s], s)
    /\ lastReg' = [lastReg EXCEPT ![data[s]] = s]
    /\ fenced' = [fenced EXCEPT ![data[s]] = s]
    /\ connPc' = [connPc EXCEPT ![s] = "set2"]
    /\ UNCHANGED <<sock, data, discPc, discUser, discSock, socketUser,
                   dbVars, taskVars, statusOut, rejected, cleanClose>>

\* setUserOnline: SET socket:<S>:user done; handleConnection broadcasts
\* user:status online.
ConnSetOnline2(s) ==
    /\ connPc[s] = "set2"
    /\ SetSocketUserKey(s, data[s])
    /\ statusOut' = [statusOut EXCEPT ![s] =
                       Append(@, ServerEmitStatus(data[s], "online"))]
    /\ connPc' = [connPc EXCEPT ![s] = "done"]
    /\ UNCHANGED <<sock, data, discPc, discUser, discSock, userSocket,
                   dbVars, taskVars, histVars>>

(***************************************************************************)
(* handleDisconnect                                                        *)
(***************************************************************************)
\* The client closes a connected socket.  handleDisconnect reads
\* client.data.userId at once; with a userId it calls setUserOffline, whose
\* first step is GET user:<U>:socket.
Disconnect(s) ==
    /\ sock[s] = "live"
    /\ Cardinality(ClientClosed) < MaxDisconnects
    /\ sock' = [sock EXCEPT ![s] = "closed"]
    /\ HandleDisconnectStart(s)
    /\ cleanClose' = IF connPc[s] = "done" THEN cleanClose \cup {s} ELSE cleanClose
    /\ UNCHANGED <<data, connPc, discSock, redisVars, dbVars, taskVars,
                   lastReg, fenced, rejected>>

\* setUserOffline: GET user:<U>:socket answered.
DiscGet(s) ==
    /\ discPc[s] = "get"
    /\ discSock' = [discSock EXCEPT ![s] = userSocket[discUser[s]]]
    /\ discPc' = [discPc EXCEPT ![s] =
                    IF userSocket[discUser[s]] # NoSocket THEN "del1" ELSE "del2"]
    /\ UNCHANGED <<sock, data, connPc, discUser, redisVars, dbVars,
                   taskVars, statusOut, histVars>>

\* setUserOffline: DEL socket:<socketId>:user done.
DiscDel1(s) ==
    /\ discPc[s] = "del1"
    /\ socketUser' = [socketUser EXCEPT ![discSock[s]] = NoUser]
    /\ discPc' = [discPc EXCEPT ![s] = "del2"]
    /\ UNCHANGED <<sock, data, connPc, discUser, discSock, userSocket,
                   dbVars, taskVars, statusOut, histVars>>

\* setUserOffline: DEL user:<U>:socket done; handleDisconnect broadcasts
\* user:status offline.
DiscDel2(s) ==
    /\ discPc[s] = "del2"
    /\ DelUserSocketKey(discUser[s])
    /\ statusOut' = [statusOut EXCEPT ![s] =
                       Append(@, ServerEmitStatus(discUser[s], "offline"))]
    /\ discPc' = [discPc EXCEPT ![s] = "done"]
    /\ lastReg' = [lastReg EXCEPT ![discUser[s]] = NoSocket]
    /\ fenced' = [fenced EXCEPT ![discUser[s]] = IF @ = s THEN NoSocket ELSE @]
    /\ UNCHANGED <<sock, data, connPc, discUser, discSock, socketUser,
                   dbVars, taskVars, rejected, cleanClose>>

(***************************************************************************)
(* The store and the process: expiry of the presence keys, which           *)
(* setUserOnline writes with { ex: 86400 }, a store command of             *)
(* setUserOffline that fails, and the end of the gateway process.          *)
(***************************************************************************)
\* Variant of ExpireUserKey: the key was written without a time to live.
ExpireUserKey_Never(userId) ==
    /\ userSocket[userId] # NoSocket
    /\ UNCHANGED vars

\* The store drops user:<U>:socket when its time to live has passed.
ExpireUserKey(userId) ==
    /\ userSocket[userId] # NoSocket
    /\ userSocket' = [userSocket EXCEPT ![userId] = NoSocket]
    /\ UNCHANGED <<connVars, socketUser, dbVars, taskVars, statusOut, histVars>>

\* The store drops socket:<S>:user when its time to live has passed.
ExpireSocketKey(socketId) ==
    /\ socketUser[socketId] # NoUser
    /\ socketUser' = [socketUser EXCEPT ![socketId] = NoUser]
    /\ UNCHANGED <<connVars, userSocket, dbVars, taskVars, statusOut, histVars>>

\* A store command of setUserOffline throws: the catch of setUserOffline
\* logs the error, the keys not yet deleted stay, and handleDisconnect
\* broadcasts user:status offline.
DiscFail(s) ==
    /\ discPc[s] \in {"get", "del1", "del2"}
    /\ statusOut' = [statusOut EXCEPT ![s] =
                       Append(@, ServerEmitStatus(discUser[s], "offline"))]
    /\ discPc' = [discPc EXCEPT ![s] = "done"]
    /\ UNCHANGED <<sock, data, connPc, discUser, discSock, redisVars,
                   dbVars, taskVars, histVars>>

\* The gateway process ends: every socket is closed and no handler runs on;
\* the store keeps what it holds.
Crash ==
    /\ \E s \in Sockets : connPc[s] # "crashed"
    /\ sock' = [s \in Sockets |-> "closed"]
    /\ connPc' = [s \in Sockets |-> "crashed"]
    /\ discPc' = [s \in Sockets |-> "crashed"]
    /\ tasks' = [t \in TaskIds |->
                   IF tasks[t].pc \in {"free", "done"} /\ tasks[t].job \in {"none", "done", "failed"}
                   THEN tasks[t]
                   ELSE [tasks[t] EXCEPT !.pc = "crashed", !.job = "none"]]
    /\ UNCHANGED <<data, discUser, discSock, redisVars, dbVars, nTasks,
                   statusOut, histVars>>

(***************************************************************************)
(* Database queries                                                        *)
(***************************************************************************)
\* GroupsService.isUserInGroup: a group_members row of the user exists
IsUserInGroup(userId) ==
    \E k \in DOMAIN groupMembers : groupMembers[k] = userId

\* non-generated rows of messages sent by userId
CountDirect(userId) ==
    PriorDirect[userId]
    + Cardinality({k \in DOMAIN messages :
                     /\ messages[k].fromUserId = userId
                     /\ ~messages[k].isAIGenerated})

\* non-generated rows of group_messages sent by userId
CountGroupFrom(userId) ==
    Cardinality({k \in DOMAIN groupMessages :
                   /\ groupMessages[k].fromUserId = userId
                   /\ ~groupMessages[k].isAIGenerated})

\* content.length summed over rows
RECURSIVE SumLength(_)
SumLength(rows) ==
    IF rows = <<>> THEN 0
    ELSE TextLength(Head(rows).content) + SumLength(Tail(rows))

\* total content.length of the rows CountDirect counts; a message sent
\* before the run has PriorContentLength characters
DirectLength(userId) ==
    PriorDirect[userId] * PriorContentLength
    + SumLength(SelectSeq(messages,
                          LAMBDA r : r.fromUserId = userId /\ ~r.isAIGenerated))

\* total content.length of the rows CountGroupFrom counts
GroupLengthFrom(userId) ==
    SumLength(SelectSeq(groupMessages,
                        LAMBDA r : r.fromUserId = userId /\ ~r.isAIGenerated))

\* Variant of CountGroup: the rows of the group, generated ones included.
CountGroup_AllRows ==
    PriorGroup + Len(groupMessages)

\* non-generated rows of group_messages of the group
CountGroup ==
    PriorGroup
    + Cardinality({k \in DOMAIN groupMessages : ~groupMessages[k].isAIGenerated})

\* calculateMemberContributions: the senders of the non-generated rows of
\* the group in the order of their first row, each with its number of rows
MemberContributions ==
    LET rows == SelectSeq(groupMessages, LAMBDA r : ~r.isAIGenerated)
        first == {k \in DOMAIN rows :
                    \A l \in 1..(k - 1) : rows[l].fromUserId # rows[k].fromUserId}
    IN  [k \in 1..Cardinality(first) |->
           LET f == CHOOSE m \in first :
                      Cardinality({l \in first : l <= m}) = k
           IN  [userId |-> rows[f].fromUserId,
                count |-> CountGroupFrom(rows[f].fromUserId)]]

\* the display names updateGroupStyleProfile fetches for the contributors
MemberNames(contributions) ==
    [k \in DOMAIN contributions |-> contributions[k].userId]

\* GroupAIStyleAnalysisService.analyzeGroupMessages over the non-generated
\* rows of the group.  Every row of the group has the same length, so the
\* recency weighting leaves the average as it is.
AnalyzeGroupMessages ==
    IF CountGroup = 0 THEN EmptyGroupAnalysis
    ELSE [commonPhrases |-> <<>>,
          averageMessageLength |->
              CalculateAverageMessageLength(CountGroup,
                  SumLength(SelectSeq(groupMessages, LAMBDA r : ~r.isAIGenerated))),
          memberContributions |-> MemberContributions]

\* payload.content of an inbound event; a text is a sequence of pieces
PayloadContent == <<"text">>

\* the i-th chunk with content that the provider stream delivers
ProviderChunk(i) == ToString(i)

\* ChatService.sendMessage: the inserted row
MessageRow(t, fromUserId, toUserId, content, isAIGenerated) ==
    [id |-> NextMsgId, fromUserId |-> fromUserId, toUserId |-> toUserId,
     content |-> content, isAIGenerated |-> isAIGenerated, task |-> t]

\* GroupMessageService.sendGroupMessage: the inserted row
GroupMessageRow(t, fromUserId, content, isAIGenerated) ==
    [id |-> NextMsgId, fromUserId |-> fromUserId, content |-> content,
     isAIGenerated |-> isAIGenerated, task |-> t]

(***************************************************************************)
(* StyleProfileService.shouldUpdateProfile(userId).then(updateStyleProfile)*)
(* started without await by message:send and ai-friend:message.  One step  *)
(* is the answer of one query of the chain.                                *)
(***************************************************************************)
UserJobStages == {"su-profile", "su-direct", "su-group", "up-direct",
                  "up-group", "up-profile", "up-write"}

UpdateStages == {"up-direct", "up-group", "up-profile", "up-write"}

\* another invocation runs updateStyleProfile for the user of invocation t
UserJobRunning(t) ==
    \E o \in TaskIds \ {t} :
        tasks[o].from = tasks[t].from /\ tasks[o].job \in UpdateStages

\* Variant of StyleProfileJob: the update of an existing row writes the new
\* features and leaves the stylePrompt of the row as it was.
StyleProfileJob_StalePrompt(t) ==
    /\ tasks[t].job \in UserJobStages
    /\ LET u == tasks[t].from
           j == tasks[t].job
           T == tasks[t]
       IN  /\ tasks' = [tasks EXCEPT ![t] =
                CASE j = "su-profile" ->
                       IF styleProfiles[u].exists
                       THEN [T EXCEPT !.last = styleProfiles[u].messageCount,
                                      !.job = "su-direct"]
                       ELSE [T EXCEPT !.job = "up-direct"]
                  [] j = "su-direct" ->
                       [T EXCEPT !.cnt = CountDirect(u), !.job = "su-group"]
                  [] j = "su-group" ->
                       [T EXCEPT !.cnt = @ + CountGroupFrom(u),
                                 !.job = IF T.cnt + CountGroupFrom(u)
                                              >= T.last + USER_UPDATE_INTERVAL
                                         THEN "up-direct" ELSE "done"]
                  [] j = "up-direct" ->
                       [T EXCEPT !.cnt = CountDirect(u), !.len = DirectLength(u),
                                 !.job = "up-group"]
                  [] j = "up-group" ->
                       [T EXCEPT !.cnt = @ + CountGroupFrom(u),
                                 !.len = @ + GroupLengthFrom(u),
                                 !.feat = AnalyzeMessages(T.cnt + CountGroupFrom(u),
                                                          T.len + GroupLengthFrom(u)),
                                 !.job = "up-profile"]
                  [] j = "up-profile" ->
                       [T EXCEPT !.found = styleProfiles[u].exists, !.job = "up-write"]
                  [] OTHER ->
                       [T EXCEPT !.job = IF ~T.found /\ styleProfiles[u].exists
                                         THEN "failed" ELSE "done"]]
           /\ styleProfiles' =
                IF j = "up-write" /\ T.found = styleProfiles[u].exists
                THEN [styleProfiles EXCEPT ![u] =
                        [exists |-> TRUE, messageCount |-> T.cnt,
                         features |-> T.feat,
                         stylePrompt |-> IF styleProfiles[u].exists
                                         THEN styleProfiles[u].stylePrompt
                                         ELSE GenerateStylePrompt(T.feat)]]
                ELSE styleProfiles
    /\ UNCHANGED <<connVars, redisVars, msgVars, memberVars, groupStyleProfile,
                   nTasks, statusOut, histVars>>

\* Variant of StyleProfileJob: shouldUpdateProfile answers false while
\* another updateStyleProfile of the same user runs.
StyleProfileJob_Locked(t) ==
    /\ tasks[t].job \in UserJobStages
    /\ LET u == tasks[t].from
           j == tasks[t].job
           T == tasks[t]
       IN  /\ tasks' = [tasks EXCEPT ![t] =
                CASE j = "su-profile" ->
                       IF styleProfiles[u].exists
                       THEN [T EXCEPT !.last = styleProfiles[u].messageCount,
                                      !.job = "su-direct"]
                       ELSE [T EXCEPT !.job = IF UserJobRunning(t) THEN "done"
                                              ELSE "up-direct"]
                  [] j = "su-direct" ->
                       [T EXCEPT !.cnt = CountDirect(u), !.job = "su-group"]
                  [] j = "su-group" ->
                       [T EXCEPT !.cnt = @ + CountGroupFrom(u),
                                 !.job = IF T.cnt + CountGroupFrom(u)
                                              >= T.last + USER_UPDATE_INTERVAL
                                            /\ ~UserJobRunning(t)
                                         THEN "up-direct" ELSE "done"]
                  [] j = "up-direct" ->
                       [T EXCEPT !.cnt = CountDirect(u), !.len = DirectLength(u),
                                 !.job = "up-group"]
                  [] j = "up-group" ->
                       [T EXCEPT !.cnt = @ + CountGroupFrom(u),
                                 !.len = @ + GroupLengthFrom(u),
                                 !.feat = AnalyzeMessages(T.cnt + CountGroupFrom(u),
                                                          T.len + GroupLengthFrom(u)),
                                 !.job = "up-profile"]
                  [] j = "up-profile" ->
                       [T EXCEPT !.found = styleProfiles[u].exists, !.job = "up-write"]
                  [] OTHER ->
                       [T EXCEPT !.job = IF ~T.found /\ styleProfiles[u].exists
                                         THEN "failed" ELSE "done"]]
           /\ styleProfiles' =
                IF j = "up-write" /\ T.found = styleProfiles[u].exists
                THEN [styleProfiles EXCEPT ![u] =
                        [exists |-> TRUE, messageCount |-> T.cnt,
                         features |-> T.feat,
                         stylePrompt |-> GenerateStylePrompt(T.feat)]]
                ELSE styleProfiles
    /\ UNCHANGED <<connVars, redisVars, msgVars, memberVars, groupStyleProfile,
                   nTasks, statusOut, histVars>>

\* Variant of StyleProfileJob: the count must exceed the interval, not reach it.
StyleProfileJob_StrictInterval(t) ==
    /\ tasks[t].job \in UserJobStages
    /\ LET u == tasks[t].from
           j == tasks[t].job
           T == tasks[t]
       IN  /\ tasks' = [tasks EXCEPT ![t] =
                CASE j = "su-profile" ->
                       IF styleProfiles[u].exists
                       THEN [T EXCEPT !.last = styleProfiles[u].messageCount,
                                      !.job = "su-direct"]
                       ELSE [T EXCEPT !.job = "up-direct"]
                  [] j = "su-direct" ->
                       [T EXCEPT !.cnt = CountDirect(u), !.job = "su-group"]
                  [] j = "su-group" ->
                       [T EXCEPT !.cnt = @ + CountGroupFrom(u),
                                 !.job = IF T.cnt + CountGroupFrom(u)
                                              > T.last + USER_UPDATE_INTERVAL
                                         THEN "up-direct" ELSE "done"]
                  [] j = "up-direct" ->
                       [T EXCEPT !.cnt = CountDirect(u), !.len = DirectLength(u),
                                 !.job = "up-group"]
                  [] j = "up-group" ->
                       [T EXCEPT !.cnt = @ + CountGroupFrom(u),
                                 !.len = @ + GroupLengthFrom(u),
                                 !.feat = AnalyzeMessages(T.cnt + CountGroupFrom(u),
                                                          T.len + GroupLengthFrom(u)),
                                 !.job = "up-profile"]
                  [] j = "up-profile" ->
                       [T EXCEPT !.found = styleProfiles[u].exists, !.job = "up-write"]
                  [] OTHER ->
                       [T EXCEPT !.job = IF ~T.found /\ styleProfiles[u].exists
                                         THEN "failed" ELSE "done"]]
           /\ styleProfiles' =
                IF j = "up-write" /\ T.found = styleProfiles[u].exists
                THEN [styleProfiles EXCEPT ![u] =
                        [exists |-> TRUE, messageCount |-> T.cnt,
                         features |-> T.feat,
                         stylePrompt |-> GenerateStylePrompt(T.feat)]]
                ELSE styleProfiles
    /\ UNCHANGED <<connVars, redisVars, msgVars, memberVars, groupStyleProfile,
                   nTasks, statusOut, histVars>>

StyleProfileJob(t) ==
    /\ tasks[t].job \in UserJobStages
    /\ LET u == tasks[t].from
           j == tasks[t].job
           T == tasks[t]
       IN  /\ tasks' = [tasks EXCEPT ![t] =
                CASE j = "su-profile" ->
                       IF styleProfiles[u].exists
                       THEN [T EXCEPT !.last = styleProfiles[u].messageCount,
                                      !.job = "su-direct"]
                       ELSE [T EXCEPT !.job = "up-direct"]
                  [] j = "su-direct" ->
                       [T EXCEPT !.cnt = CountDirect(u), !.job = "su-group"]
                  [] j = "su-group" ->
                       [T EXCEPT !.cnt = @ + CountGroupFrom(u),
                                 !.job = IF T.cnt + CountGroupFrom(u)
                                              >= T.last + USER_UPDATE_INTERVAL
                                         THEN "up-direct" ELSE "done"]
                  [] j = "up-direct" ->
                       [T EXCEPT !.cnt = CountDirect(u), !.len = DirectLength(u),
                                 !.job = "up-group"]
                  [] j = "up-group" ->
                       [T EXCEPT !.cnt = @ + CountGroupFrom(u),
                                 !.len = @ + GroupLengthFrom(u),
                                 !.feat = AnalyzeMessages(T.cnt + CountGroupFrom(u),
                                                          T.len + GroupLengthFrom(u)),
                                 !.job = "up-profile"]
                  [] j = "up-profile" ->
                       [T EXCEPT !.found = styleProfiles[u].exists, !.job = "up-write"]
                  [] OTHER ->
                       [T EXCEPT !.job = IF ~T.found /\ styleProfiles[u].exists
                                         THEN "failed" ELSE "done"]]
           /\ styleProfiles' =
                IF j = "up-write" /\ T.found = styleProfiles[u].exists
                THEN [styleProfiles EXCEPT ![u] =
                        [exists |-> TRUE, messageCount |-> T.cnt,
                         features |-> T.feat,
                         stylePrompt |-> GenerateStylePrompt(T.feat)]]
                ELSE styleProfiles
    /\ UNCHANGED <<connVars, redisVars, msgVars, memberVars, groupStyleProfile,
                   nTasks, statusOut, histVars>>

(***************************************************************************)
(* GroupAIProfileService.shouldUpdateProfile(groupId) followed by          *)
(* updateGroupStyleProfile: started without await by group:message:send,   *)
(* awaited by group:ai:mention, which then calls getGroupMembers.          *)
(***************************************************************************)
\* the message of the group:ai:error that handleGroupAIMention's catch emits
GenerationFailedError == "Failed to generate AI response"

GroupJobStages == {"gsu-profile", "gsu-pcount", "gsu-count", "gup-select",
                   "gup-profile", "gup-write"}

GroupJobNext(T, j) ==
    CASE j = "gsu-profile" ->
           IF groupStyleProfile.exists THEN "gsu-pcount" ELSE "gsu-count"
      [] j = "gsu-pcount" -> "gsu-count"
      [] j = "gsu-count" ->
           IF CountGroup >= (IF T.found THEN T.last ELSE 0) + UPDATE_INTERVAL
           THEN "gup-select" ELSE "done"
      [] j = "gup-select" -> "gup-profile"
      [] j = "gup-profile" -> "gup-write"
      [] OTHER ->
           IF ~T.found /\ groupStyleProfile.exists THEN "failed" ELSE "done"

GroupProfileJob(t) ==
    /\ tasks[t].job \in GroupJobStages
    /\ LET j == tasks[t].job
           T == tasks[t]
           n == GroupJobNext(T, j)
           awaited == T.kind = "group:ai:mention" /\ n = "done"
           thrown == T.kind = "group:ai:mention" /\ n = "failed"
       IN  /\ tasks' = [tasks EXCEPT ![t] =
                [T EXCEPT !.job = n,
                          !.pc = CASE awaited -> "members"
                                   [] thrown -> "done"
                                   [] OTHER -> @,
                          !.err = IF thrown /\ @ = "none" THEN "profile" ELSE @,
                          !.out = IF thrown
                                  THEN Append(@, ClientEmit(t, "group:ai:error",
                                                ErrorPayload(GenerationFailedError)))
                                  ELSE @,
                          !.found = IF j \in {"gsu-profile", "gup-profile"}
                                    THEN groupStyleProfile.exists ELSE @,
                          !.last = IF j = "gsu-pcount" THEN CountGroup ELSE @,
                          !.cnt = IF j \in {"gsu-count", "gup-select"}
                                  THEN CountGroup ELSE @,
                          !.gfeat = IF j = "gup-select"
                                    THEN AnalyzeGroupMessages ELSE @]]
           /\ groupStyleProfile' =
                IF j = "gup-write" /\ T.found = groupStyleProfile.exists
                THEN [exists |-> TRUE, messageCount |-> T.cnt,
                      features |-> T.gfeat,
                      stylePrompt |-> GenerateGroupStylePrompt(T.gfeat,
                                        MemberNames(T.gfeat.memberContributions))]
                ELSE groupStyleProfile
    /\ UNCHANGED <<connVars, redisVars, msgVars, memberVars, styleProfiles,
                   nTasks, statusOut, histVars>>

(***************************************************************************)
(* The resets: POST ai-friend/reset and the group admin's reset, each one   *)
(* UPDATE of the row.                                                       *)
(***************************************************************************)
\* StyleProfileService.resetStyleProfile(userId)
ResetStyleProfile(userId) ==
    /\ styleProfiles[userId].exists
    /\ styleProfiles' = [styleProfiles EXCEPT ![userId] =
                           [exists |-> TRUE, messageCount |-> 0,
                            features |-> EmptyAnalysis, stylePrompt |-> NoPrompt]]
    /\ UNCHANGED <<connVars, redisVars, msgVars, memberVars, groupStyleProfile,
                   taskVars, statusOut, histVars>>

\* GroupAIProfileService.resetGroupStyleProfile(groupId)
ResetGroupStyleProfile ==
    /\ groupStyleProfile.exists
    /\ groupStyleProfile' = [exists |-> TRUE, messageCount |-> 0,
                             features |-> EmptyGroupAnalysis,
                             stylePrompt |-> NoPrompt]
    /\ UNCHANGED <<connVars, redisVars, msgVars, memberVars, styleProfiles,
                   taskVars, statusOut, histVars>>

(***************************************************************************)
(* message:send                                                            *)
(***************************************************************************)
\* A new handler invocation for an event that arrived on socket s.  Without
\* client.data.userId the handler returns at once.
NewTask(s, kind, toUserId, first) ==
    /\ sock[s] = "live"
    /\ nTasks < Len(tasks)
    /\ nTasks' = nTasks + 1
    /\ tasks' = [tasks EXCEPT ![nTasks + 1] =
                   [FreeTask EXCEPT !.kind = kind, !.sock = s, !.from = data[s],
                                    !.to = toUserId,
                                    !.pc = IF data[s] = NoUser
                                           THEN "dropped" ELSE first]]
    /\ UNCHANGED <<connVars, redisVars, dbVars, statusOut, histVars>>

\* The event arrives on socket s; with a userId the handler calls
\* chatService.sendMessage.
HandleMessageSend(s, toUserId) ==
    NewTask(s, "message:send", toUserId, "persist")

\* Variant of MsPersist: the sender of the row is taken from the payload.
MsPersist_FromPayload(t) ==
    /\ tasks[t].kind = "message:send"
    /\ tasks[t].pc = "persist"
    /\ messages' = Append(messages,
                     MessageRow(t, tasks[t].to, tasks[t].to, PayloadContent, FALSE))
    /\ tasks' = [tasks EXCEPT ![t].msg = NextMsgId, ![t].pc = "forward",
                              ![t].job = "su-profile"]
    /\ UNCHANGED <<connVars, redisVars, groupMessages, memberVars, profileVars,
                   nTasks, statusOut, histVars>>

\* chatService.sendMessage inserted the row; shouldUpdateProfile is started
\* and emitToUser issues its lookup.
MsPersist(t) ==
    /\ tasks[t].kind = "message:send"
    /\ tasks[t].pc = "persist"
    /\ messages' = Append(messages,
                     MessageRow(t, tasks[t].from, tasks[t].to, PayloadContent, FALSE))
    /\ tasks' = [tasks EXCEPT ![t].msg = NextMsgId, ![t].pc = "forward",
                              ![t].job = "su-profile"]
    /\ UNCHANGED <<connVars, redisVars, groupMessages, memberVars, profileVars,
                   nTasks, statusOut, histVars>>

\* Variant of MsForward: the acknowledgment is emitted before the forward.
MsForward_AckFirst(t) ==
    /\ tasks[t].kind = "message:send"
    /\ tasks[t].pc = "forward"
    /\ tasks' = [tasks EXCEPT
                   ![t].out = @ \o <<ClientEmit(t, "message:sent", Message(tasks[t].msg))>>
                                \o EmitToUser(tasks[t].to, "message:receive", Message(tasks[t].msg), t),
                   ![t].pc = "done"]
    /\ UNCHANGED <<connVars, redisVars, dbVars, nTasks, statusOut, histVars>>

\* emitToUser(toUserId, 'message:receive', message) answered, then
\* client.emit('message:sent', message).
MsForward(t) ==
    /\ tasks[t].kind = "message:send"
    /\ tasks[t].pc = "forward"
    /\ tasks' = [tasks EXCEPT
                   ![t].out = @ \o EmitToUser(tasks[t].to, "message:receive", Message(tasks[t].msg), t)
                                \o <<ClientEmit(t, "message:sent", Message(tasks[t].msg))>>,
                   ![t].pc = "done"]
    /\ UNCHANGED <<connVars, redisVars, dbVars, nTasks, statusOut, histVars>>

(***************************************************************************)
(* GroupsService.addMember and leaveGroup (REST).  The caller of addMember *)
(* is the admin u1; the admin does not leave.                              *)
(***************************************************************************)
\* addMember called: the admin, group and user lookups pass and
\* isUserInGroup(groupId, userIdToAdd) is issued.
AddMember(a, userId) ==
    /\ adds[a].pc = "free"
    /\ IF a = 1 THEN TRUE ELSE adds[a - 1].pc # "free"
    /\ adds' = [adds EXCEPT ![a] = [pc |-> "check", user |-> userId]]
    /\ UNCHANGED <<connVars, redisVars, msgVars, groupMembers, nLeaves,
                   profileVars, taskVars, statusOut, histVars>>

\* isUserInGroup answered: a member is refused (BadRequestException),
\* otherwise the insert is issued.
AddMemberCheck(a) ==
    /\ adds[a].pc = "check"
    /\ adds' = [adds EXCEPT ![a].pc =
                  IF IsUserInGroup(adds[a].user) THEN "refused" ELSE "insert"]
    /\ UNCHANGED <<connVars, redisVars, msgVars, groupMembers, nLeaves,
                   profileVars, taskVars, statusOut, histVars>>

\* the group_members row is inserted
AddMemberInsert(a) ==
    /\ adds[a].pc = "insert"
    /\ groupMembers' = Append(groupMembers, adds[a].user)
    /\ adds' = [adds EXCEPT ![a].pc = "done"]
    /\ UNCHANGED <<connVars, redisVars, msgVars, nLeaves, profileVars,
                   taskVars, statusOut, histVars>>

\* leaveGroup of a member that is not an admin: its rows are deleted
LeaveGroup(userId) ==
    /\ nLeaves < MaxLeaves
    /\ IsUserInGroup(userId)
    /\ nLeaves' = nLeaves + 1
    /\ groupMembers' = SelectSeq(groupMembers, LAMBDA m : m # userId)
    /\ UNCHANGED <<connVars, redisVars, msgVars, adds, profileVars,
                   taskVars, statusOut, histVars>>

(***************************************************************************)
(* group:message:send                                                      *)
(***************************************************************************)
NotMemberError == "You are not a member of this group"

\* The event arrives on socket s; with a userId the handler calls
\* groupsService.isUserInGroup.
HandleGroupMessageSend(s) ==
    NewTask(s, "group:message:send", NoUser, "check")

\* Variant of GsCheck: the membership answer is ignored.
GsCheck_NoMembershipCheck(t) ==
    /\ tasks[t].kind = "group:message:send"
    /\ tasks[t].pc = "check"
    /\ tasks' = [tasks EXCEPT ![t].pc = "persist"]
    /\ UNCHANGED <<connVars, redisVars, dbVars, nTasks, statusOut, histVars>>

\* isUserInGroup answered: a non-member gets group:message:error and the
\* handler returns; for a member sendGroupMessage is called.
GsCheck(t) ==
    /\ tasks[t].kind = "group:message:send"
    /\ tasks[t].pc = "check"
    /\ tasks' = [tasks EXCEPT ![t] =
                   IF IsUserInGroup(tasks[t].from)
                   THEN [@ EXCEPT !.pc = "persist"]
                   ELSE [@ EXCEPT !.pc = "done",
                                  !.out = @ \o <<ClientEmit(t, "group:message:error",
                                                            ErrorPayload(NotMemberError))>>]]
    /\ UNCHANGED <<connVars, redisVars, dbVars, nTasks, statusOut, histVars>>

\* sendGroupMessage inserted the row; getGroupMembers is called.
GsPersist(t) ==
    /\ tasks[t].kind = "group:message:send"
    /\ tasks[t].pc = "persist"
    /\ groupMessages' = Append(groupMessages,
                          GroupMessageRow(t, tasks[t].from, PayloadContent, FALSE))
    /\ tasks' = [tasks EXCEPT ![t].msg = NextMsgId, ![t].pc = "members"]
    /\ UNCHANGED <<connVars, redisVars, messages, memberVars, profileVars,
                   nTasks, statusOut, histVars>>

\* The end of handleGroupMessageSend's try block, reached when the loop over
\* the members is over: client.emit('group:message:sent') and the start of
\* groupAIProfileService.shouldUpdateProfile.
GsFinish(t, T) ==
    [T EXCEPT !.out = @ \o <<ClientEmit(t, "group:message:sent", Message(T.msg))>>,
              !.job = "gsu-profile",
              !.pc = "done"]

\* getGroupMembers answered with the rows of the group.  The loop skips the
\* rows of the sender and awaits emitToUser for each of the others.
GsMembers(t) ==
    /\ tasks[t].kind = "group:message:send"
    /\ tasks[t].pc = "members"
    /\ LET others == SelectSeq(groupMembers, LAMBDA m : m # tasks[t].from)
           T == [tasks[t] EXCEPT !.mem = others, !.i = 1, !.pc = "forward"]
       IN  tasks' = [tasks EXCEPT ![t] = IF others = <<>> THEN GsFinish(t, T) ELSE T]
    /\ UNCHANGED <<connVars, redisVars, dbVars, nTasks, statusOut, histVars>>

\* emitToUser(member.userId, 'group:message:receive', message) answered.
GsForward(t) ==
    /\ tasks[t].kind = "group:message:send"
    /\ tasks[t].pc = "forward"
    /\ LET T == [tasks[t] EXCEPT
                   !.out = @ \o EmitToUser(tasks[t].mem[tasks[t].i],
                                           "group:message:receive", Message(tasks[t].msg), t),
                   !.i = @ + 1]
       IN  tasks' = [tasks EXCEPT ![t] =
                       IF tasks[t].i = Len(tasks[t].mem) THEN GsFinish(t, T) ELSE T]
    /\ UNCHANGED <<connVars, redisVars, dbVars, nTasks, statusOut, histVars>>

(***************************************************************************)
(* ai-friend:message                                                       *)
(***************************************************************************)
\* The event arrives on socket s; with a userId the handler stores the
\* user's message with chatService.sendMessage.
HandleAIFriendMessage(s) ==
    NewTask(s, "ai-friend:message", AI_FRIEND_USER_ID, "persist")

\* for await body: fullResponse += chunk; client.emit('ai-friend:stream-chunk')
AfChunkEmit_ChunkOnly(t, T, chunk) ==
    [T EXCEPT !.full = Append(@, chunk),
              !.out = Append(@, ClientEmit(t, "ai-friend:stream-chunk",
                                           ChunkPayload(<<chunk>>)))]

AfChunkEmit(t, T, chunk) ==
    [T EXCEPT !.full = Append(@, chunk),
              !.out = Append(@, ClientEmit(t, "ai-friend:stream-chunk",
                                           ChunkPayload(Append(T.full, chunk))))]

\* sendMessage inserted the user's row: ai-friend:user-message-sent,
\* shouldUpdateProfile started, ai-friend:stream-start; the generator starts
\* with hasMinimumData, which calls getStyleProfile.
AfPersist(t) ==
    /\ tasks[t].kind = "ai-friend:message"
    /\ tasks[t].pc = "persist"
    /\ messages' = Append(messages,
                     MessageRow(t, tasks[t].from, AI_FRIEND_USER_ID, PayloadContent, FALSE))
    /\ tasks' = [tasks EXCEPT
                   ![t].msg = NextMsgId,
                   ![t].out = @ \o <<ClientEmit(t, "ai-friend:user-message-sent", Message(NextMsgId)),
                                     ClientEmit(t, "ai-friend:stream-start", Message(NextMsgId))>>,
                   ![t].job = "su-profile",
                   ![t].pc = "minimum"]
    /\ UNCHANGED <<connVars, redisVars, groupMessages, memberVars, profileVars,
                   nTasks, statusOut, histVars>>

AfMinimum_AnyProfile(t) ==
    /\ tasks[t].kind = "ai-friend:message"
    /\ tasks[t].pc = "minimum"
    /\ LET p == styleProfiles[tasks[t].from]
       IN  tasks' = [tasks EXCEPT ![t] =
                       IF p.exists
                       THEN [@ EXCEPT !.pc = "profile"]
                       ELSE [AfChunkEmit(t, @, "learning") EXCEPT !.pc = "reply"]]
    /\ UNCHANGED <<connVars, redisVars, dbVars, nTasks, statusOut, histVars>>

\* hasMinimumData's getStyleProfile answered.  Without the minimum the
\* generator yields its "still learning" text and returns, and the handler
\* stores the reply; otherwise the generator calls getStyleProfile.
AfMinimum(t) ==
    /\ tasks[t].kind = "ai-friend:message"
    /\ tasks[t].pc = "minimum"
    /\ LET p == styleProfiles[tasks[t].from]
       IN  tasks' = [tasks EXCEPT ![t] =
                       IF p.exists /\ p.messageCount >= MINIMUM_MESSAGES_REQUIRED
                       THEN [@ EXCEPT !.pc = "profile"]
                       ELSE [AfChunkEmit(t, @, "learning") EXCEPT !.pc = "reply"]]
    /\ UNCHANGED <<connVars, redisVars, dbVars, nTasks, statusOut, histVars>>

\* the generator's getStyleProfile answered.  Without a style prompt the
\* generator yields its "still analyzing" text and returns; otherwise it
\* opens the provider stream.
AfProfile(t) ==
    /\ tasks[t].kind = "ai-friend:message"
    /\ tasks[t].pc = "profile"
    /\ LET p == styleProfiles[tasks[t].from]
       IN  tasks' = [tasks EXCEPT ![t] =
                       IF p.exists /\ p.stylePrompt # NoPrompt
                       THEN [@ EXCEPT !.pc = "stream"]
                       ELSE [AfChunkEmit(t, @, "analyzing") EXCEPT !.pc = "reply"]]
    /\ UNCHANGED <<connVars, redisVars, dbVars, nTasks, statusOut, histVars>>

\* Variant of AfStreamChunk: the handler gives the stream up once the socket
\* that sent the event has closed.
AfStreamChunk_Cancels(t) ==
    /\ tasks[t].kind = "ai-friend:message"
    /\ tasks[t].pc = "stream"
    /\ tasks[t].sent < MaxChunks
    /\ tasks' = [tasks EXCEPT ![t] =
                   IF sock[tasks[t].sock] = "live"
                   THEN [AfChunkEmit(t, @, ProviderChunk(tasks[t].sent + 1))
                           EXCEPT !.sent = @ + 1]
                   ELSE [@ EXCEPT !.pc = "done"]]
    /\ UNCHANGED <<connVars, redisVars, dbVars, nTasks, statusOut, histVars>>

\* the provider stream delivers a chunk with content
AfStreamChunk(t) ==
    /\ tasks[t].kind = "ai-friend:message"
    /\ tasks[t].pc = "stream"
    /\ tasks[t].sent < MaxChunks
    /\ tasks' = [tasks EXCEPT ![t] =
                   [AfChunkEmit(t, @, ProviderChunk(tasks[t].sent + 1)) EXCEPT !.sent = @ + 1]]
    /\ UNCHANGED <<connVars, redisVars, dbVars, nTasks, statusOut, histVars>>

\* chat.completions.create or the provider stream throws: the generator's
\* catch yields its apology and the generator returns; the handler appends
\* the apology to fullResponse, emits it and goes on to store the reply.
AfProviderFail(t) ==
    /\ tasks[t].kind = "ai-friend:message"
    /\ tasks[t].pc = "stream"
    /\ tasks' = [tasks EXCEPT ![t] =
                   [AfChunkEmit(t, @, "apology") EXCEPT !.pc = "reply",
                                                        !.err = "provider"]]
    /\ UNCHANGED <<connVars, redisVars, dbVars, nTasks, statusOut, histVars>>

\* the provider stream ends: the handler stores the reply
AfStreamEnd(t) ==
    /\ tasks[t].kind = "ai-friend:message"
    /\ tasks[t].pc = "stream"
    /\ tasks' = [tasks EXCEPT ![t].pc = "reply"]
    /\ UNCHANGED <<connVars, redisVars, dbVars, nTasks, statusOut, histVars>>

\* sendMessage(AI_FRIEND_USER_ID, userId, fullResponse, true) inserted the
\* reply; ai-friend:stream-end.
AfReply(t) ==
    /\ tasks[t].kind = "ai-friend:message"
    /\ tasks[t].pc = "reply"
    /\ messages' = Append(messages,
                     MessageRow(t, AI_FRIEND_USER_ID, tasks[t].from, tasks[t].full, TRUE))
    /\ tasks' = [tasks EXCEPT
                   ![t].out = Append(@, ClientEmit(t, "ai-friend:stream-end", Message(NextMsgId))),
                   ![t].pc = "done"]
    /\ UNCHANGED <<connVars, redisVars, groupMessages, memberVars, profileVars,
                   nTasks, statusOut, histVars>>

(***************************************************************************)
(* group:ai:mention                                                        *)
(***************************************************************************)
\* The event arrives on socket s; with a userId the handler calls
\* groupsService.isUserInGroup.
HandleGroupAIMention(s) ==
    NewTask(s, "group:ai:mention", NoUser, "check")

\* isUserInGroup answered: a non-member gets group:ai:error and the handler
\* returns; for a member the handler awaits shouldUpdateProfile.
GaCheck(t) ==
    /\ tasks[t].kind = "group:ai:mention"
    /\ tasks[t].pc = "check"
    /\ tasks' = [tasks EXCEPT ![t] =
                   IF IsUserInGroup(tasks[t].from)
                   THEN [@ EXCEPT !.pc = "should-update", !.job = "gsu-profile"]
                   ELSE [@ EXCEPT !.pc = "done",
                                  !.out = @ \o <<ClientEmit(t, "group:ai:error",
                                                            ErrorPayload(NotMemberError))>>]]
    /\ UNCHANGED <<connVars, redisVars, dbVars, nTasks, statusOut, histVars>>

\* getGroupMembers answered with the rows of the group; the first
\* emitToUser of the stream-start loop is issued.
GaMembers(t) ==
    /\ tasks[t].kind = "group:ai:mention"
    /\ tasks[t].pc = "members"
    /\ tasks' = [tasks EXCEPT ![t].mem = groupMembers, ![t].i = 1,
                              ![t].pc = IF groupMembers = <<>>
                                        THEN "min-profile" ELSE "start"]
    /\ UNCHANGED <<connVars, redisVars, dbVars, nTasks, statusOut, histVars>>

GaEmitLoop_SenderOnly(t, name, msg, after) ==
    tasks' = [tasks EXCEPT
                ![t].out = IF sock[tasks[t].sock] = "live"
                           THEN @ \o EmitToUser(tasks[t].mem[tasks[t].i], name, msg, t)
                           ELSE @,
                ![t].i = IF @ = Len(tasks[t].mem) THEN 1 ELSE @ + 1,
                ![t].pc = IF tasks[t].i = Len(tasks[t].mem) THEN after ELSE @]

GaEmitLoop_Overtaking(t, name, msg, after) ==
    tasks' = [tasks EXCEPT
                ![t].out = EmitToUser(tasks[t].mem[tasks[t].i], name, msg, t) \o @,
                ![t].i = IF @ = Len(tasks[t].mem) THEN 1 ELSE @ + 1,
                ![t].pc = IF tasks[t].i = Len(tasks[t].mem) THEN after ELSE @]

\* One emitToUser of a loop over the members answered.  After the last
\* member the handler goes on to `after`.
GaEmitLoop(t, name, msg, after) ==
    tasks' = [tasks EXCEPT
                ![t].out = @ \o EmitToUser(tasks[t].mem[tasks[t].i], name, msg, t),
                ![t].i = IF @ = Len(tasks[t].mem) THEN 1 ELSE @ + 1,
                ![t].pc = IF tasks[t].i = Len(tasks[t].mem) THEN after ELSE @]

\* emitToUser(member.userId, 'group:ai:stream-start') answered; after the
\* loop the generator starts with hasMinimumData (getGroupStyleProfile).
GaStart(t) ==
    /\ tasks[t].kind = "group:ai:mention"
    /\ tasks[t].pc = "start"
    /\ GaEmitLoop(t, "group:ai:stream-start", Message(0), "min-profile")
    /\ UNCHANGED <<connVars, redisVars, dbVars, nTasks, statusOut, histVars>>

\* The text the generator yields is appended to fullResponse and the chunk
\* loop over the members starts; without members the handler goes on.
GaYield(T, chunk, pcLoop, pcAfter) ==
    [T EXCEPT !.full = Append(@, chunk),
              !.pc = IF T.mem = <<>> THEN pcAfter ELSE pcLoop]

\* One query of generateGroupAIResponseStream answered: the profile row and
\* the message count of hasMinimumData's getGroupStyleProfile, the profile
\* row and the message count of the generator's getGroupStyleProfile, or
\* the next event of the provider stream: a chunk with content, the end of
\* the stream, or an error, after which the generator's catch yields its
\* apology and the generator returns.
GaGenerate(t) ==
    /\ tasks[t].kind = "group:ai:mention"
    /\ tasks[t].pc \in {"min-profile", "min-count", "gen-profile", "gen-count",
                        "stream"}
    /\ LET T == tasks[t]
           learning == GaYield(T, "learning", "last-chunk", "reply")
           analyzing == GaYield(T, "analyzing", "last-chunk", "reply")
           apology == [GaYield(T, "apology", "last-chunk", "reply")
                         EXCEPT !.err = "provider"]
       IN  \E event \in {"chunk", "end", "error"} :
             tasks' = [tasks EXCEPT ![t] =
               CASE T.pc = "min-profile" ->
                      IF groupStyleProfile.exists
                      THEN [T EXCEPT !.pc = "min-count"] ELSE learning
                 [] T.pc = "min-count" ->
                      IF CountGroup >= GROUP_MINIMUM_MESSAGES_REQUIRED
                      THEN [T EXCEPT !.pc = "gen-profile"] ELSE learning
                 [] T.pc = "gen-profile" ->
                      IF groupStyleProfile.exists
                      THEN [T EXCEPT !.pc = "gen-count",
                                     !.found = groupStyleProfile.stylePrompt # NoPrompt]
                      ELSE analyzing
                 [] T.pc = "gen-count" ->
                      IF T.found THEN [T EXCEPT !.pc = "stream"] ELSE analyzing
                 [] OTHER ->
                      IF event = "chunk" /\ T.sent < MaxChunks
                      THEN [GaYield(T, ProviderChunk(T.sent + 1), "chunk", "stream")
                              EXCEPT !.sent = @ + 1]
                      ELSE IF event = "error" THEN apology
                      ELSE [T EXCEPT !.pc = "reply"]]
    /\ UNCHANGED <<connVars, redisVars, dbVars, nTasks, statusOut, histVars>>

\* emitToUser(member.userId, 'group:ai:stream-chunk') answered; after the
\* loop the generator is resumed: it returns after one of its own texts
\* (sendGroupAIMessage is called) and reads the provider stream otherwise.
GaChunk(t) ==
    /\ tasks[t].kind = "group:ai:mention"
    /\ tasks[t].pc \in {"chunk", "last-chunk"}
    /\ GaEmitLoop(t, "group:ai:stream-chunk", ChunkPayload(tasks[t].full),
                  IF tasks[t].pc = "chunk" THEN "stream" ELSE "reply")
    /\ UNCHANGED <<connVars, redisVars, dbVars, nTasks, statusOut, histVars>>

\* createGroupAIMember inserts the user row of the group's AI member and
\* then its membership row; the user row is never deleted.
GroupAIUserExists ==
    \E k \in DOMAIN groupMembers : groupMembers[k] = GROUP_AI_USER_ID

\* sendGroupAIMessage answered.  It inserted the reply and the stream-end
\* loop starts; in a group without the AI member's user row the insert
\* violates the foreign key of from_user_id, and the handler's catch emits
\* group:ai:error to the sender.
GaReply(t) ==
    /\ tasks[t].kind = "group:ai:mention"
    /\ tasks[t].pc = "reply"
    /\ groupMessages' =
         IF GroupAIUserExists
         THEN Append(groupMessages,
                     GroupMessageRow(t, GROUP_AI_USER_ID, tasks[t].full, TRUE))
         ELSE groupMessages
    /\ tasks' = [tasks EXCEPT ![t] =
         IF GroupAIUserExists
         THEN [@ EXCEPT !.msg = NextMsgId,
                        !.pc = IF tasks[t].mem = <<>> THEN "done" ELSE "end"]
         ELSE [@ EXCEPT !.pc = "done",
                        !.err = IF @ = "none" THEN "reply" ELSE @,
                        !.out = Append(@, ClientEmit(t, "group:ai:error",
                                            ErrorPayload(GenerationFailedError)))]]
    /\ UNCHANGED <<connVars, redisVars, messages, memberVars, profileVars,
                   nTasks, statusOut, histVars>>

\* emitToUser(member.userId, 'group:ai:stream-end') answered.
GaEnd(t) ==
    /\ tasks[t].kind = "group:ai:mention"
    /\ tasks[t].pc = "end"
    /\ GaEmitLoop(t, "group:ai:stream-end", Message(tasks[t].msg), "done")
    /\ UNCHANGED <<connVars, redisVars, dbVars, nTasks, statusOut, histVars>>

(***************************************************************************)
(* Failures.  An awaited database call of a handler throws and the         *)
(* handler's catch block runs; a store lookup fails and getSocketByUser     *)
(* returns null.                                                           *)
(***************************************************************************)
SendFailedError == "Failed to send message"

\* Variant of MsPersistFail: the catch block also acknowledges.
MsPersistFail_Acks(t) ==
    /\ tasks[t].kind = "message:send"
    /\ tasks[t].pc = "persist"
    /\ tasks' = [tasks EXCEPT
                   ![t].out = @ \o <<ClientEmit(t, "message:error", ErrorPayload(SendFailedError)),
                                     ClientEmit(t, "message:sent", Message(0))>>,
                   ![t].err = "persist",
                   ![t].pc = "done"]
    /\ UNCHANGED <<connVars, redisVars, dbVars, nTasks, statusOut, histVars>>

\* chatService.sendMessage throws: catch, client.emit('message:error').
MsPersistFail(t) ==
    /\ tasks[t].kind = "message:send"
    /\ tasks[t].pc = "persist"
    /\ tasks' = [tasks EXCEPT
                   ![t].out = @ \o <<ClientEmit(t, "message:error", ErrorPayload(SendFailedError))>>,
                   ![t].err = "persist",
                   ![t].pc = "done"]
    /\ UNCHANGED <<connVars, redisVars, dbVars, nTasks, statusOut, histVars>>

\* getSocketByUser fails inside emitToUser: it returns null, emitToUser
\* returns false and the handler acknowledges.
MsLookupFail(t) ==
    /\ tasks[t].kind = "message:send"
    /\ tasks[t].pc = "forward"
    /\ tasks' = [tasks EXCEPT
                   ![t].out = @ \o <<ClientEmit(t, "message:sent", Message(tasks[t].msg))>>,
                   ![t].err = "lookup",
                   ![t].pc = "done"]
    /\ UNCHANGED <<connVars, redisVars, dbVars, nTasks, statusOut, histVars>>

\* isUserInGroup, sendGroupMessage or getGroupMembers throws: catch,
\* client.emit('group:message:error', 'Failed to send message').
GsDbFail(t) ==
    /\ tasks[t].kind = "group:message:send"
    /\ tasks[t].pc \in {"check", "persist", "members"}
    /\ tasks' = [tasks EXCEPT
                   ![t].out = @ \o <<ClientEmit(t, "group:message:error", ErrorPayload(SendFailedError))>>,
                   ![t].err = tasks[t].pc,
                   ![t].pc = "done"]
    /\ UNCHANGED <<connVars, redisVars, dbVars, nTasks, statusOut, histVars>>

\* getSocketByUser fails inside one emitToUser of the members loop: nothing
\* is emitted to that member and the loop goes on.
GsLookupFail(t) ==
    /\ tasks[t].kind = "group:message:send"
    /\ tasks[t].pc = "forward"
    /\ LET T == [tasks[t] EXCEPT !.i = @ + 1, !.err = "lookup"]
       IN  tasks' = [tasks EXCEPT ![t] =
                       IF tasks[t].i = Len(tasks[t].mem) THEN GsFinish(t, T) ELSE T]
    /\ UNCHANGED <<connVars, redisVars, dbVars, nTasks, statusOut, histVars>>

\* Variant of ProfileJobFail: the handler awaits the job, so the rejection
\* reaches the handler's catch.
ProfileJobFail_Awaited(t) ==
    /\ tasks[t].job \in UserJobStages \cup GroupJobStages
    /\ tasks' = [tasks EXCEPT
                   ![t].job = "failed",
                   ![t].pc = "done",
                   ![t].err = IF @ = "none" THEN "profile" ELSE @,
                   ![t].out = Append(@, ClientEmit(t,
                                 CASE tasks[t].kind = "message:send" -> "message:error"
                                   [] tasks[t].kind = "group:message:send" -> "group:message:error"
                                   [] tasks[t].kind = "ai-friend:message" -> "ai-friend:error"
                                   [] OTHER -> "group:ai:error",
                                 ErrorPayload(GenerationFailedError)))]
    /\ UNCHANGED <<connVars, redisVars, dbVars, nTasks, statusOut, histVars>>

\* A query of shouldUpdateProfile or of the update it starts throws.  The
\* chains that message:send, group:message:send and ai-friend:message start
\* end in a catch that logs; group:ai:mention awaits the calls, so there the
\* rejection reaches the handler's catch, which emits group:ai:error.
ProfileJobFail(t) ==
    /\ tasks[t].job \in UserJobStages \cup GroupJobStages
    /\ tasks' = [tasks EXCEPT ![t] =
                   IF tasks[t].kind = "group:ai:mention"
                   THEN [@ EXCEPT !.job = "failed", !.pc = "done",
                                  !.err = IF @ = "none" THEN "profile" ELSE @,
                                  !.out = Append(@, ClientEmit(t, "group:ai:error",
                                                ErrorPayload(GenerationFailedError)))]
                   ELSE [@ EXCEPT !.job = "failed"]]
    /\ UNCHANGED <<connVars, redisVars, dbVars, nTasks, statusOut, histVars>>

\* Variant of AfDbFail: the catch block also closes the stream with
\* ai-friend:stream-end.
AfDbFail_EndsStream(t) ==
    /\ tasks[t].kind = "ai-friend:message"
    /\ tasks[t].pc \in {"persist", "minimum", "profile", "reply"}
    /\ tasks' = [tasks EXCEPT
                   ![t].out = @ \o <<ClientEmit(t, "ai-friend:error",
                                                ErrorPayload(GenerationFailedError)),
                                     ClientEmit(t, "ai-friend:stream-end", Message(0))>>,
                   ![t].err = IF @ = "none" THEN "db" ELSE @,
                   ![t].pc = "done"]
    /\ UNCHANGED <<connVars, redisVars, dbVars, nTasks, statusOut, histVars>>

\* An awaited query of handleAIFriendMessage throws: the sendMessage of the
\* user's message, the getStyleProfile of hasMinimumData or of the generator
\* (both outside the generator's try), or the sendMessage of the reply.
\* The handler's catch emits ai-friend:error to the client.
AfDbFail(t) ==
    /\ tasks[t].kind = "ai-friend:message"
    /\ tasks[t].pc \in {"persist", "minimum", "profile", "reply"}
    /\ tasks' = [tasks EXCEPT
                   ![t].out = Append(@, ClientEmit(t, "ai-friend:error",
                                                  ErrorPayload(GenerationFailedError))),
                   ![t].err = IF @ = "none" THEN "db" ELSE @,
                   ![t].pc = "done"]
    /\ UNCHANGED <<connVars, redisVars, dbVars, nTasks, statusOut, histVars>>

(***************************************************************************)
(* C1.  At every instant at which no connection or disconnection handler   *)
(* is in progress, isUserOnline(U) is true exactly when U's most recent    *)
(* register has not been followed by a deregister for the same or a newer  *)
(* handle (a deregister for an older, superseded handle does not count).   *)
(***************************************************************************)
Quiescent ==
    \A s \in Sockets : connPc[s] \in {"idle", "done"} /\ discPc[s] \in {"idle", "done"}

C1_OnlineIffRegistered ==
    Quiescent => \A u \in Users : IsUserOnline(u) <=> (fenced[u] # NoSocket)

(***************************************************************************)
(* C2.  The registry holds one handle per user and the last registration   *)
(* wins: while no deregister of U has taken effect since U's latest        *)
(* register, getSocketByUser(U) is the handle of that latest register and  *)
(* emitToUser(U, ...) emits to that handle's room and to no other.         *)
(***************************************************************************)
C2_LastRegistrationWins ==
    \A u \in Users :
        lastReg[u] # NoSocket =>
            /\ GetSocketByUser(u) = lastReg[u]
            /\ \A i \in 1..Len(EmitToUser(u, "e", Message(0), 1)) :
                   EmitToUser(u, "e", Message(0), 1)[i].room = lastReg[u]
            /\ Len(EmitToUser(u, "e", Message(0), 1)) = 1

\* Some user registered h1 and then h2 with no deregister, and a message to
\* that user was emitted to h2.
C2_Witness ==
    \E u \in Users, h1, h2 \in Sockets, t \in TaskIds :
        /\ h1 # h2 /\ data[h1] = u /\ data[h2] = u
        /\ connPc[h1] = "done" /\ connPc[h2] = "done"
        /\ discPc[h1] = "idle" /\ discPc[h2] = "idle"
        /\ lastReg[u] = h2
        /\ tasks[t].pc = "done" /\ tasks[t].to = u
        /\ Len(tasks[t].out) = 2
        /\ tasks[t].out[1].name = "message:receive"
        /\ tasks[t].out[1].room = h2

(***************************************************************************)
(* C3.  A socket whose session validation failed is disconnected and       *)
(* nothing else has happened for it: it carries no identity, the registry  *)
(* has no entry for it, no user:status was broadcast on its behalf (not by *)
(* the handleDisconnect of the forced disconnect either), and its inbound  *)
(* events were dropped.                                                    *)
(***************************************************************************)
C3_RejectedLeavesNoTrace ==
    \A s \in rejected :
        /\ sock[s] = "closed"
        /\ data[s] = NoUser
        /\ socketUser[s] = NoUser
        /\ \A u \in Users : userSocket[u] # s
        /\ statusOut[s] = <<>>
        /\ discPc[s] = "done"
        /\ \A t \in TaskIds :
               tasks[t].sock = s => tasks[t].pc = "dropped" /\ tasks[t].out = <<>>

\* A rejected socket whose forced disconnect ran handleDisconnect and whose
\* inbound event was dropped, next to an admitted one.
C3_Witness ==
    \E s, s2 \in Sockets :
        /\ s \in rejected /\ discPc[s] = "done"
        /\ s2 # s /\ connPc[s2] = "done" /\ data[s2] # NoUser
        /\ \E t \in TaskIds : tasks[t].sock = s /\ tasks[t].pc = "dropped"

(***************************************************************************)
(* C6.  When message:send forwards a stored message M while the registry   *)
(* holds a handle h for the recipient, the handler emits exactly two       *)
(* events: first one message:receive carrying M to h (which reaches h if   *)
(* h is connected), then one message:sent carrying M to the sender's       *)
(* connection; before that step it has emitted nothing.                    *)
(***************************************************************************)
C6_ForwardStep(t) ==
    LET h == userSocket[tasks[t].to]
    IN  (/\ tasks[t].kind = "message:send"
         /\ tasks[t].pc = "forward"
         /\ tasks'[t].pc = "done"
         /\ IsUserOnline(tasks[t].to))
        => /\ Len(tasks'[t].out) = 2
           /\ tasks'[t].out[1] =
                  [name |-> "message:receive", room |-> h,
                   rcv |-> IF sock[h] = "live" THEN {h} ELSE {},
                   user |-> tasks[t].to, msg |-> Message(tasks[t].msg), task |-> t]
           /\ tasks'[t].out[2] =
                  [name |-> "message:sent", room |-> tasks[t].sock,
                   rcv |-> IF sock[tasks[t].sock] = "live" THEN {tasks[t].sock} ELSE {},
                   user |-> tasks[t].from, msg |-> Message(tasks[t].msg), task |-> t]
           /\ \E i \in 1..Len(messages) :
                  /\ messages[i].id = tasks[t].msg
                  /\ messages[i].toUserId = tasks[t].to

RecipientGone(u) ==
    /\ \E h \in Sockets : data[h] = u
    /\ \A h \in Sockets : data[h] = u => h \in cleanClose /\ discPc[h] = "done"

C7_ForwardStep(t) ==
    (/\ tasks[t].kind = "message:send"
     /\ tasks[t].pc = "forward"
     /\ tasks'[t].pc = "done"
     /\ RecipientGone(tasks[t].to))
    => /\ Len(tasks'[t].out) = 1
       /\ tasks'[t].out[1].name = "message:sent"
       /\ tasks'[t].out[1].room = tasks[t].sock
       /\ tasks'[t].out[1].msg = Message(tasks[t].msg)
       /\ \E i \in 1..Len(messages) :
              /\ messages[i].id = tasks[t].msg
              /\ messages[i].fromUserId = tasks[t].from
              /\ messages[i].toUserId = tasks[t].to

C7_OfflineRecipient ==
    [][\A t \in TaskIds : C7_ForwardStep(t)]_vars

\* A message to a recipient who connected, disconnected and was deregistered
\* has been handled and acknowledged to the connected sender.
C7_Witness ==
    \E t \in TaskIds :
        /\ tasks[t].kind = "message:send" /\ tasks[t].pc = "done"
        /\ RecipientGone(tasks[t].to)
        /\ tasks[t].from # tasks[t].to
        /\ Len(tasks[t].out) = 1
        /\ tasks[t].out[1].rcv = {tasks[t].sock}

(***************************************************************************)
(* C4.  Every message stored by message:send, group:message:send or        *)
(* ai-friend:message has fromUserId equal to the userId attached to the    *)
(* socket the event arrived on, and an event on a socket without an        *)
(* attached userId stores nothing and emits nothing.                       *)
(***************************************************************************)
SenderKinds == {"message:send", "group:message:send", "ai-friend:message"}

\* the rows stored by handler invocation t
RowsOf(t) ==
    {messages[k] : k \in {j \in DOMAIN messages : messages[j].task = t}}
    \cup {groupMessages[k] :
            k \in {j \in DOMAIN groupMessages : groupMessages[j].task = t}}

NoIdentityNoEffect ==
    \A t \in TaskIds :
        (tasks[t].kind # "free" /\ tasks[t].from = NoUser)
            => /\ tasks[t].pc = "dropped"
               /\ tasks[t].out = <<>>
               /\ tasks[t].job = "none"
               /\ RowsOf(t) = {}

C4_EveryRowFromAttachedIdentity ==
    /\ NoIdentityNoEffect
    /\ \A t \in TaskIds :
           tasks[t].kind \in SenderKinds =>
               \A r \in RowsOf(t) : r.fromUserId = data[tasks[t].sock]

(***************************************************************************)
(* C4, amended.  Every message a user wrote that message:send,             *)
(* group:message:send or ai-friend:message stores has fromUserId equal to  *)
(* the userId attached to the socket the event arrived on; the generated   *)
(* reply that ai-friend:message stores has fromUserId equal to the AI      *)
(* friend's id and toUserId equal to the attached userId; an event on a    *)
(* socket without an attached userId stores nothing and emits nothing.     *)
(***************************************************************************)
C4_SenderIsAttachedIdentity ==
    /\ NoIdentityNoEffect
    /\ \A t \in TaskIds :
           tasks[t].kind \in SenderKinds =>
               \A r \in RowsOf(t) :
                   IF r.isAIGenerated
                   THEN /\ tasks[t].kind = "ai-friend:message"
                        /\ r.fromUserId = AI_FRIEND_USER_ID
                        /\ r.toUserId = data[tasks[t].sock]
                   ELSE /\ r.fromUserId = data[tasks[t].sock]
                        /\ r.fromUserId # NoUser

\* ai-friend:message has stored the user's message and the generated reply.
C4_Witness ==
    \E t \in TaskIds :
        /\ tasks[t].kind = "ai-friend:message" /\ tasks[t].pc = "done"
        /\ \E r1, r2 \in RowsOf(t) :
               /\ ~r1.isAIGenerated /\ r1.fromUserId = data[tasks[t].sock]
               /\ r2.isAIGenerated /\ r2.toUserId = data[tasks[t].sock]

(***************************************************************************)
(* C5.  When sendMessage of message:send or sendGroupMessage of            *)
(* group:message:send throws, the handler's only emission is one           *)
(* message:error / group:message:error to the sender's socket: no          *)
(* message:receive or group:message:receive, no message:sent or            *)
(* group:message:sent, and no row is stored.                               *)
(***************************************************************************)
ErrorEventOf(kind) ==
    IF kind = "message:send" THEN "message:error" ELSE "group:message:error"

C5_DurabilityPrecedesDelivery ==
    \A t \in TaskIds :
        (tasks[t].kind \in {"message:send", "group:message:send"}
           /\ tasks[t].err = "persist")
        => /\ tasks[t].pc = "done"
           /\ tasks[t].msg = 0
           /\ RowsOf(t) = {}
           /\ Len(tasks[t].out) = 1
           /\ tasks[t].out[1].name = ErrorEventOf(tasks[t].kind)
           /\ tasks[t].out[1].room = tasks[t].sock

\* sendGroupMessage threw for a member whose socket is connected: the error
\* event reached it.
C5_Witness ==
    \E t \in TaskIds :
        /\ tasks[t].kind = "group:message:send"
        /\ tasks[t].err = "persist"
        /\ tasks[t].out # <<>>
        /\ tasks[t].out[1].rcv = {tasks[t].sock}

(***************************************************************************)
(* C8.  group:message:send fans a stored message out to the group members  *)
(* other than the sender: the members it resolves are those in the group   *)
(* when getGroupMembers answers, each lookup emits group:message:receive   *)
(* to the handle registered for that member at that moment (and nothing    *)
(* for a member without one), and no connection is sent the event twice    *)
(* by one invocation.                                                      *)
(***************************************************************************)
GroupReceives(out) ==
    SelectSeq(out, LAMBDA e : e.name = "group:message:receive")

C8_MembersStep(t) ==
    (/\ tasks[t].kind = "group:message:send"
     /\ tasks[t].pc = "members"
     /\ tasks'[t] # tasks[t])
    => {tasks'[t].mem[k] : k \in DOMAIN tasks'[t].mem}
         = {groupMembers[k] : k \in DOMAIN groupMembers} \ {tasks[t].from}

C8_ForwardStep(t) ==
    (/\ tasks[t].kind = "group:message:send"
     /\ tasks[t].pc = "forward"
     /\ tasks'[t] # tasks[t])
    => LET m == tasks[t].mem[tasks[t].i]
           h == GetSocketByUser(m)
           new == SubSeq(tasks'[t].out, Len(tasks[t].out) + 1, Len(tasks'[t].out))
       IN  GroupReceives(new) =
               IF h # NoSocket
               THEN <<[name |-> "group:message:receive", room |-> h,
                       rcv |-> IF sock[h] = "live" THEN {h} ELSE {},
                       user |-> m, msg |-> Message(tasks[t].msg), task |-> t]>>
               ELSE <<>>

C8_AtMostOnce ==
    \A t \in TaskIds :
        tasks[t].kind = "group:message:send" =>
            LET r == GroupReceives(tasks[t].out)
            IN  \A i, j \in DOMAIN r : i # j => r[i].room # r[j].room

C8_GroupFanOut ==
    /\ [][\A t \in TaskIds : C8_MembersStep(t) /\ C8_ForwardStep(t)]_vars
    /\ []C8_AtMostOnce

(***************************************************************************)
(* C9.  When isUserInGroup answers that the sender of group:message:send   *)
(* or group:ai:mention is not a member, the handler emits one              *)
(* group:message:error / group:ai:error to the sender's socket and ends:   *)
(* it stores nothing, emits nothing else, starts no profile job and no     *)
(* generation, and leaves the sockets and the registry as they are.        *)
(***************************************************************************)
C9_CheckStep(t) ==
    (/\ tasks[t].kind \in {"group:message:send", "group:ai:mention"}
     /\ tasks[t].pc = "check"
     /\ ~IsUserInGroup(tasks[t].from)
     /\ tasks'[t] # tasks[t])
    => /\ tasks'[t] =
            [tasks[t] EXCEPT
               !.pc = "done",
               !.out = <<[name |-> IF tasks[t].kind = "group:message:send"
                                    THEN "group:message:error" ELSE "group:ai:error",
                          room |-> tasks[t].sock,
                          rcv |-> IF sock[tasks[t].sock] = "live"
                                  THEN {tasks[t].sock} ELSE {},
                          user |-> tasks[t].from, msg |-> ErrorPayload(NotMemberError),
                          task |-> t]>>]
       /\ UNCHANGED <<connVars, redisVars, dbVars, statusOut>>

Refused(t) ==
    /\ tasks[t].out # <<>>
    /\ tasks[t].out[1].msg.error = NotMemberError

C9_NonMemberOnlyError ==
    /\ [][\A t \in TaskIds : C9_CheckStep(t)]_vars
    /\ [](\A t \in TaskIds :
            Refused(t) => /\ tasks[t].pc = "done"
                          /\ Len(tasks[t].out) = 1
                          /\ tasks[t].job = "none"
                          /\ tasks[t].full = <<>>
                          /\ tasks[t].msg = 0
                          /\ RowsOf(t) = {})

\* u2 left the group and then mentioned the group's AI on its connected,
\* registered socket: it was sent group:ai:error.
C9_Witness ==
    \E t \in TaskIds :
        /\ tasks[t].kind = "group:ai:mention"
        /\ Refused(t)
        /\ tasks[t].out[1].rcv = {tasks[t].sock}
        /\ userSocket[tasks[t].from] = tasks[t].sock

(***************************************************************************)
(* C10.  Once message:send or group:message:send has stored its message,   *)
(* the handler emits no error event, and when it ends it has emitted       *)
(* exactly one message:sent / group:message:sent, to the sender's socket,  *)
(* and the row is still stored.                                            *)
(***************************************************************************)
AckEventOf(kind) ==
    IF kind = "message:send" THEN "message:sent" ELSE "group:message:sent"

C10_AckAfterPersist ==
    \A t \in TaskIds :
        (tasks[t].kind \in {"message:send", "group:message:send"}
           /\ tasks[t].msg # 0)
        => /\ \E r \in RowsOf(t) : r.id = tasks[t].msg
           /\ \A k \in DOMAIN tasks[t].out :
                  tasks[t].out[k].name # ErrorEventOf(tasks[t].kind)
           /\ tasks[t].pc = "done" =>
                  /\ Cardinality({k \in DOMAIN tasks[t].out :
                         tasks[t].out[k].name = AckEventOf(tasks[t].kind)}) = 1
                  /\ tasks[t].out[Len(tasks[t].out)].name = AckEventOf(tasks[t].kind)
                  /\ tasks[t].out[Len(tasks[t].out)].room = tasks[t].sock

(***************************************************************************)
(* C11  StyleProfileService.shouldUpdateProfile.  The step at which the    *)
(* call returns is the one that leaves the stages su-profile or su-group   *)
(* for up-direct (true: updateStyleProfile follows) or done (false).       *)
(***************************************************************************)
C11_Returns(t) ==
    /\ tasks[t].job \in {"su-profile", "su-group"}
    /\ tasks'[t].job \in {"up-direct", "done"}

C11_LastComputedCount(u) ==
    IF styleProfiles[u].exists THEN styleProfiles[u].messageCount ELSE 0

\* C11 as claimed: shouldUpdateProfile answers true if and only if the
\* user's number of non-generated sent messages, less the count stored at
\* the last recompute (0 when there was none), is at least 10.
C11_EligibleIffIntervalPassed ==
    [][\A t \in TaskIds :
         C11_Returns(t) =>
           LET u == tasks[t].from
           IN  (tasks'[t].job = "up-direct")
                 <=> (CountDirect(u) + CountGroupFrom(u)
                        - C11_LastComputedCount(u) >= USER_UPDATE_INTERVAL)]_vars

\* C11 amended: shouldUpdateProfile answers true if and only if it finds no
\* profile row for the user, or the number of non-generated sent messages
\* it counts is at least the messageCount it read from the row plus 10.
C11_EligibleIffFirstTimeOrInterval ==
    [][\A t \in TaskIds :
         C11_Returns(t) =>
           (tasks'[t].job = "up-direct")
             <=> \/ tasks[t].job = "su-profile"
                 \/ tasks'[t].cnt >= tasks[t].last + USER_UPDATE_INTERVAL]_vars

\* u1, whose row stores 1, has sent its eleventh message and the call has
\* answered true.
C11_Witness ==
    \E t \in TaskIds :
        /\ tasks[t].job = "up-direct"
        /\ styleProfiles[tasks[t].from].exists
        /\ tasks[t].cnt = tasks[t].last + USER_UPDATE_INTERVAL

(***************************************************************************)
(* C12  GroupAIProfileService.shouldUpdateProfile.  The call returns at    *)
(* the step that leaves the stage gsu-count, for gup-select (true) or      *)
(* done (false).                                                           *)
(***************************************************************************)
C12_Returns(t) ==
    /\ tasks[t].job = "gsu-count"
    /\ tasks'[t].job \in {"gup-select", "done"}

\* the messageCount column of the group's row: what the last recompute
\* stored, or the column default of the row createGroup inserted
C12_StoredCount ==
    IF groupStyleProfile.exists THEN groupStyleProfile.messageCount ELSE 0

\* C12: shouldUpdateProfile answers true if and only if the group's number
\* of non-generated messages is at least the count stored at the last
\* recompute plus 20, also for a group whose row createGroup inserted empty.
C12_EligibleIffStoredPlusInterval ==
    [][\A t \in TaskIds :
         C12_Returns(t) =>
           ((tasks'[t].job = "gup-select")
              <=> CountGroup >= C12_StoredCount + UPDATE_INTERVAL)]_vars

(***************************************************************************)
(* C13  The texts the generators yield themselves, without the provider.   *)
(***************************************************************************)
CannedTexts == {"learning", "analyzing"}

\* the generator of task t has yielded one of its own texts and nothing
\* else, has returned, and the provider was not called
C13_OneCannedChunk(T, text) ==
    /\ T.full = <<text>>
    /\ T.sent = 0
    /\ T.err = "none"
    /\ T.pc \in {"reply", "last-chunk"}

\* a read of the generator of an ai-friend:message finds fewer sent
\* messages than the minimum, or no rendered prompt
C13_UserBelow(t) ==
    LET u == tasks[t].from
    IN  \/ /\ tasks[t].pc = "minimum"
           /\ \/ ~styleProfiles[u].exists
              \/ CountDirect(u) + CountGroupFrom(u) < MINIMUM_MESSAGES_REQUIRED
        \/ /\ tasks[t].pc = "profile"
           /\ ~(styleProfiles[u].exists /\ styleProfiles[u].stylePrompt # NoPrompt)

\* the same for the generator of a group:ai:mention
C13_GroupBelow(t) ==
    \/ /\ tasks[t].pc \in {"min-profile", "gen-profile"}
       /\ ~groupStyleProfile.exists
    \/ /\ tasks[t].pc = "min-count"
       /\ CountGroup < GROUP_MINIMUM_MESSAGES_REQUIRED
    \/ /\ tasks[t].pc = "gen-count"
       /\ ~tasks[t].found

\* C13: whenever the generator finds its subject below the minimum (10
\* messages of a user, 20 of a group) or without a rendered prompt, the
\* stream consists of exactly one canned chunk and ends without a call of
\* the provider; and a stream that consists of a canned chunk stays so.
C13_BelowMinimumOneCannedChunk ==
    [][\A t \in TaskIds :
         /\ (tasks[t].kind = "ai-friend:message" /\ C13_UserBelow(t)
               /\ tasks'[t].pc # tasks[t].pc)
            => /\ \E text \in CannedTexts : C13_OneCannedChunk(tasks'[t], text)
               /\ Len(tasks'[t].out) = Len(tasks[t].out) + 1
               /\ tasks'[t].out[Len(tasks'[t].out)].name = "ai-friend:stream-chunk"
         /\ (tasks[t].kind = "group:ai:mention" /\ C13_GroupBelow(t)
               /\ tasks'[t].pc # tasks[t].pc)
            => \E text \in CannedTexts : C13_OneCannedChunk(tasks'[t], text)
         /\ (tasks[t].kind \in {"ai-friend:message", "group:ai:mention"}
               /\ tasks[t].full # <<>> /\ tasks[t].full[1] \in CannedTexts)
            => /\ tasks'[t].full = tasks[t].full
               /\ tasks'[t].sent = 0
               /\ tasks'[t].pc \in {"last-chunk", "reply", "end", "done"}]_vars

\* u3, who has sent 5 messages before, has sent ai-friend:message and the
\* reply stored and delivered is the "still learning" text.
C13_Witness ==
    \E t \in TaskIds :
        /\ tasks[t].kind = "ai-friend:message"
        /\ tasks[t].from = "u3"
        /\ tasks[t].pc = "done"
        /\ tasks[t].full = <<"learning">>
        /\ CountDirect("u3") < MINIMUM_MESSAGES_REQUIRED
        /\ \E k \in DOMAIN tasks[t].out :
               /\ tasks[t].out[k].name = "ai-friend:stream-chunk"
               /\ tasks[t].out[k].rcv # {}

(***************************************************************************)
(* C14  A mention of the AI member in a group with 20 messages.            *)
(***************************************************************************)
\* C14: when a member of a group that createGroup made (to its end, the AI
\* member included) and that holds 20
\* non-generated messages has sent group:ai:mention and the handler has
\* finished, the profile was recomputed before the generation (the row
\* stores the count and a rendered prompt), the provider stream was opened
\* and gave the reply (at least one chunk, none of the generator's own
\* texts), and the generated message is stored and is the message of every
\* stream-end delivered to the members.
C14_MentionRecomputesAndStreams ==
    \A t \in TaskIds :
        (/\ tasks[t].kind = "group:ai:mention"
         /\ tasks[t].pc = "done"
         /\ IsUserInGroup(tasks[t].from)
         /\ GroupAIUserExists
         /\ CountGroup >= UPDATE_INTERVAL)
        => /\ groupStyleProfile.stylePrompt # NoPrompt
           /\ groupStyleProfile.messageCount >= UPDATE_INTERVAL
           /\ tasks[t].full # <<>>
           /\ tasks[t].full[1] \notin CannedTexts
           /\ \E k \in DOMAIN groupMessages :
                  /\ groupMessages[k].task = t
                  /\ groupMessages[k].isAIGenerated
                  /\ groupMessages[k].content = tasks[t].full
                  /\ \A e \in DOMAIN tasks[t].out :
                         tasks[t].out[e].name = "group:ai:stream-end"
                         => tasks[t].out[e].msg = Message(groupMessages[k].id)

(***************************************************************************)
(* C15  A failure of the provider, at the start of the stream or after     *)
(* some chunks.                                                            *)
(***************************************************************************)
\* the generated messages that the handler invocation t has stored
GeneratedContentsOf(t) ==
    {messages[k].content : k \in {j \in DOMAIN messages :
         messages[j].task = t /\ messages[j].isAIGenerated}}
    \cup {groupMessages[k].content : k \in {j \in DOMAIN groupMessages :
         groupMessages[j].task = t /\ groupMessages[j].isAIGenerated}}

\* C15: after a failure of the provider the stream is one apology chunk
\* after the chunks already delivered and ends, and the handler stores no
\* generated message, neither the partial text nor the apology.
C15_ProviderFailurePersistsNothing ==
    \A t \in TaskIds :
        tasks[t].err = "provider"
        => /\ tasks[t].full[Len(tasks[t].full)] = "apology"
           /\ Len(tasks[t].full) = tasks[t].sent + 1
           /\ GeneratedContentsOf(t) = {}

(***************************************************************************)
(* C16  The chunks a connection receives and the stored reply.             *)
(***************************************************************************)
ChunkEvents == {"ai-friend:stream-chunk", "group:ai:stream-chunk"}

EndEvents == {"ai-friend:stream-end", "group:ai:stream-end"}

\* the chunk fields of the chunk events of invocation t that arrived on
\* socket s, in the order of arrival
ReceivedChunks(t, s) ==
    LET Arrived(e) == e.name \in ChunkEvents /\ s \in e.rcv
        ev == SelectSeq(tasks[t].out, Arrived)
    IN  [k \in DOMAIN ev |-> ev[k].msg.text[Len(ev[k].msg.text)]]

\* the content of the stored message with this id
ContentOf(id) ==
    IF \E k \in DOMAIN messages : messages[k].id = id
    THEN messages[CHOOSE k \in DOMAIN messages : messages[k].id = id].content
    ELSE groupMessages[CHOOSE k \in DOMAIN groupMessages :
                           groupMessages[k].id = id].content

ReceivesEnd(t, s) ==
    \E k \in DOMAIN tasks[t].out :
        tasks[t].out[k].name \in EndEvents /\ s \in tasks[t].out[k].rcv

EndContent(t) ==
    ContentOf(tasks[t].out[CHOOSE k \in DOMAIN tasks[t].out :
                             tasks[t].out[k].name \in EndEvents].msg.id)

\* C16 as claimed: on every connection that receives the stream-end of a
\* stream, the concatenation in arrival order of the chunks it received is
\* the content of the message of stream-end.
C16_ReceivedChunksAreContent ==
    \A t \in TaskIds : \A s \in Sockets :
        ReceivesEnd(t, s) => ReceivedChunks(t, s) = EndContent(t)

\* C16 amended: the content of the message of stream-end is the
\* concatenation of the chunks of the stream; every chunk event carries as
\* fullResponse the concatenation of the chunks up to its own; and the
\* connection that sent ai-friend:message, when it receives stream-end, has
\* received all the chunks, in order.
C16_ContentIsStreamAndSenderReceivesAll ==
    \A t \in TaskIds :
        /\ \A k \in DOMAIN tasks[t].out :
               tasks[t].out[k].name \in ChunkEvents
               => LET text == tasks[t].out[k].msg.text
                  IN  /\ text # <<>>
                      /\ Len(text) <= Len(tasks[t].full)
                      /\ text = SubSeq(tasks[t].full, 1, Len(text))
        /\ (\E k \in DOMAIN tasks[t].out : tasks[t].out[k].name \in EndEvents)
           => EndContent(t) = tasks[t].full
        /\ \A s \in Sockets :
               (tasks[t].kind = "ai-friend:message" /\ ReceivesEnd(t, s))
               => ReceivedChunks(t, s) = EndContent(t)

\* the sender of ai-friend:message has received two chunks of the provider
\* and stream-end.
C16_Witness ==
    \E t \in TaskIds :
        /\ tasks[t].kind = "ai-friend:message"
        /\ tasks[t].sent = MaxChunks
        /\ ReceivesEnd(t, tasks[t].sock)
        /\ Len(ReceivedChunks(t, tasks[t].sock)) = MaxChunks

(***************************************************************************)
(* C17  The order of the chunk events on a connection.                     *)
(***************************************************************************)
\* the chunk events of invocation t that arrived on socket s, as positions
\* in tasks[t].out
ArrivedChunkEvents(t, s) ==
    {k \in DOMAIN tasks[t].out :
        tasks[t].out[k].name \in ChunkEvents /\ s \in tasks[t].out[k].rcv}

\* C17: on every connection the chunk events of a stream arrive in the
\* order in which the provider delivered the chunks: the i-th chunk of the
\* provider is the i-th chunk of the stream, and an event that arrives
\* later on a connection carries a later chunk of the stream.
C17_ChunksInProviderOrder ==
    \A t \in TaskIds :
        /\ \A i \in 1..tasks[t].sent : tasks[t].full[i] = ProviderChunk(i)
        /\ \A s \in Sockets : \A k1, k2 \in ArrivedChunkEvents(t, s) :
               k1 < k2
               => LET t1 == tasks[t].out[k1].msg.text
                      t2 == tasks[t].out[k2].msg.text
                  IN  /\ Len(t1) <= Len(t2)
                      /\ t1 = SubSeq(t2, 1, Len(t1))
                      /\ t2[Len(t2)] = tasks[t].full[Len(t2)]

\* a member other than the sender of group:ai:mention has received the
\* first and then the second chunk of the provider.
C17_Witness ==
    \E t \in TaskIds : \E s \in Sockets :
        /\ tasks[t].kind = "group:ai:mention"
        /\ s # tasks[t].sock
        /\ ReceivedChunks(t, s) = <<ProviderChunk(1), ProviderChunk(2)>>

(***************************************************************************)
(* C18  The sender of group:ai:mention disconnects during the stream.      *)
(***************************************************************************)
StreamLoops == {"chunk", "last-chunk", "end"}

\* the event of the loop that invocation t is in
LoopEvent(t) ==
    IF tasks[t].pc = "end" THEN "group:ai:stream-end" ELSE "group:ai:stream-chunk"

\* invocation t answers one emitToUser of a chunk loop or of the stream-end
\* loop after its sender's connection has closed
C18_LoopStepAfterClose(t) ==
    /\ tasks[t].kind = "group:ai:mention"
    /\ tasks[t].pc \in StreamLoops
    /\ sock[tasks[t].sock] # "live"
    /\ tasks'[t] # tasks[t]

\* C18: once the connection that sent group:ai:mention has closed, no event
\* of the stream arrives on it, and the handler goes on: every member whose
\* registered connection is open gets the chunk or the stream-end of the
\* step, every member is served in turn, and the loops are followed by the
\* next chunk, the storing of the reply and the end of the handler as they
\* are without the disconnect.
C18_StreamSurvivesSenderDisconnect ==
    [][\A t \in TaskIds :
         C18_LoopStepAfterClose(t) =>
           LET T == tasks[t]
               u == T.mem[T.i]
               h == GetSocketByUser(u)
               new == SubSeq(tasks'[t].out, Len(T.out) + 1, Len(tasks'[t].out))
           IN  /\ SubSeq(tasks'[t].out, 1, Len(T.out)) = T.out
               /\ \A k \in DOMAIN new : T.sock \notin new[k].rcv
               /\ (h # NoSocket /\ sock[h] = "live")
                  => /\ Len(new) = 1
                     /\ new[1].name = LoopEvent(t)
                     /\ new[1].rcv = {h}
                     /\ new[1].user = u
               /\ IF T.i < Len(T.mem)
                  THEN tasks'[t].pc = T.pc /\ tasks'[t].i = T.i + 1
                  ELSE tasks'[t].pc = CASE T.pc = "chunk" -> "stream"
                                        [] T.pc = "last-chunk" -> "reply"
                                        [] OTHER -> "done"]_vars

\* u1 sent the mention on socket 1, which closed after it had received
\* stream-start and before the stream ended; u2 on socket 2 has received
\* every chunk and stream-end.
C18_Witness ==
    \E t \in TaskIds :
        /\ tasks[t].kind = "group:ai:mention"
        /\ tasks[t].pc = "done"
        /\ sock[tasks[t].sock] # "live"
        /\ \E k \in DOMAIN tasks[t].out :
               /\ tasks[t].out[k].name = "group:ai:stream-start"
               /\ tasks[t].sock \in tasks[t].out[k].rcv
        /\ ~ReceivesEnd(t, tasks[t].sock)
        /\ \E s \in Sockets :
               /\ s # tasks[t].sock
               /\ ReceivedChunks(t, s) = tasks[t].full
               /\ ReceivesEnd(t, s)

(***************************************************************************)
(* C19  The user:status broadcasts of a connection.                        *)
(***************************************************************************)
\* the number of user:status broadcasts with this status that the handlers
\* of socket s have made
StatusCount(s, status) ==
    Cardinality({k \in DOMAIN statusOut[s] : statusOut[s][k].status = status})

\* the handlers of socket s broadcast user:status with this status in
\* this step
Broadcasts(s, status) ==
    /\ Len(statusOut'[s]) = Len(statusOut[s]) + 1
    /\ statusOut'[s][Len(statusOut'[s])].status = status

Unregistered(u) ==
    /\ userSocket[u] = NoSocket
    /\ \E h \in Sockets :
           sock[h] = "live" /\ connPc[h] = "done" /\ data[h] = u

\* C20: the deregistration at the end of a disconnect deletes the entry of
\* the connection's user whichever handle the entry names, that of a newer
\* open connection included; and while a user with an open admitted
\* connection has no entry, the user counts as offline and a message sent
\* to the user is forwarded to no connection.
C20_DisconnectUnregistersNewerConnection ==
    [][/\ \A s \in Sockets :
            (discPc[s] = "del2" /\ discPc'[s] = "done")
            => userSocket'[discUser[s]] = NoSocket
       /\ \A t \in TaskIds :
            (/\ tasks[t].kind = "message:send"
             /\ tasks[t].pc = "forward"
             /\ tasks'[t].pc = "done"
             /\ Unregistered(tasks[t].to))
            => /\ ~IsUserOnline(tasks[t].to)
               /\ \A k \in DOMAIN tasks'[t].out :
                      tasks'[t].out[k].name # "message:receive"]_vars

\* u1's first connection h1 has disconnected after a second one, h2, was
\* admitted: h2 is open, the registry has no entry for u1, and a message
\* sent to u1 has been stored and acknowledged but forwarded to nobody.
C20_Witness ==
    \E h1, h2 \in Sockets : \E t \in TaskIds :
        /\ h1 < h2
        /\ data[h1] = "u1" /\ data[h2] = "u1"
        /\ sock[h1] = "closed" /\ discPc[h1] = "done"
        /\ sock[h2] = "live" /\ connPc[h2] = "done"
        /\ userSocket["u1"] = NoSocket
        /\ ~IsUserOnline("u1")
        /\ tasks[t].kind = "message:send"
        /\ tasks[t].to = "u1"
        /\ tasks[t].pc = "done"
        /\ \A k \in DOMAIN tasks[t].out : h2 \notin tasks[t].out[k].rcv

(***************************************************************************)
(* C21  Interleavings of the presence operations of one user.              *)
(***************************************************************************)
\* the registry entries of user u: the handle under user:<u>:socket and the
\* sockets s whose socket:<s>:user names u
RegistryOf(u) ==
    [key |-> userSocket[u], socks |-> {s \in Sockets : socketUser[s] = u}]

\* setUserOnline(u, h) and setUserOffline(u), each executed alone
SerialOnline(r, h) == [key |-> h, socks |-> r.socks \cup {h}]

SerialOffline(r) == [key |-> NoSocket, socks |-> r.socks \ {r.key}]

\* the registry entries that the serial orders of the calls setUserOnline(u, h),
\* h in ons, and of offs calls of setUserOffline(u) lead to from r
RECURSIVE SerialOutcomes(_, _, _)
SerialOutcomes(ons, offs, r) ==
    IF ons = {} /\ offs = 0 THEN {r}
    ELSE UNION {SerialOutcomes(ons \ {h}, offs, SerialOnline(r, h)) : h \in ons}
         \cup (IF offs > 0 THEN SerialOutcomes(ons, offs - 1, SerialOffline(r))
               ELSE {})

\* the calls of setUserOnline and setUserOffline for u that have returned
OnlineCalls(u) == {s \in Sockets : connPc[s] = "done" /\ data[s] = u}

OfflineCalls(u) == {s \in Sockets : discPc[s] = "done" /\ discUser[s] = u}

\* C21: whenever no presence operation is in progress, the registry entries
\* of every user are those that some serial order of the setUserOnline and
\* setUserOffline calls made for the user leads to.
C21_RegistrySerializable ==
    Quiescent =>
      \A u \in Users :
          RegistryOf(u) \in
              SerialOutcomes(OnlineCalls(u), Cardinality(OfflineCalls(u)),
                             [key |-> NoSocket, socks |-> {}])

(***************************************************************************)
(* C22  Stale presence entries expire.                                     *)
(***************************************************************************)
\* the registry holds an entry for u although no connection of u is open
\* and no handler of a connection of u is running: the process crashed, a
\* deregister failed, or a deregister ran before the register it belongs to
StaleEntry(u) ==
    /\ IsUserOnline(u)
    /\ \A s \in Sockets :
           data[s] = u => /\ sock[s] = "closed"
                          /\ connPc[s] \in {"done", "crashed"}
                          /\ discPc[s] \in {"done", "crashed"}

\* C22: an entry of the registry that the gateway left behind is removed in
\* the end by its expiry, and isUserOnline of its user becomes false, also
\* when the gateway does nothing more.
C22_StaleEntryExpires ==
    \A u \in Users : StaleEntry(u) ~> ~IsUserOnline(u)

\* the gateway process ended while u1 was registered, and the entry is gone
C22_Witness ==
    /\ \A s \in Sockets : connPc[s] = "crashed"
    /\ lastReg["u1"] # NoSocket
    /\ ~IsUserOnline("u1")

(***************************************************************************)
(* C23: shouldUpdateProfile followed by updateStyleProfile (and the group   *)
(* pair) takes no lock per subject: an invocation whose counts pass the     *)
(* interval, or that finds no profile, observes true also while another     *)
(* invocation for the same subject is between its own check and its write,  *)
(* so two events for one subject can both run the recompute.                *)
(***************************************************************************)
GroupUpdateStages == {"gup-select", "gup-profile", "gup-write"}

\* another invocation runs updateGroupStyleProfile
GroupJobRunning(t) ==
    \E o \in TaskIds \ {t} : tasks[o].job \in GroupUpdateStages

C23_UserCheckStep(t) ==
    LET u == tasks[t].from
    IN  /\ UserJobRunning(t)
        /\ tasks'[t].job # tasks[t].job
        /\ \/ tasks[t].job = "su-profile" /\ ~styleProfiles[u].exists
           \/ /\ tasks[t].job = "su-group"
              /\ tasks[t].cnt + CountGroupFrom(u)
                   >= tasks[t].last + USER_UPDATE_INTERVAL
        => tasks'[t].job = "up-direct"

C23_GroupCheckStep(t) ==
    /\ GroupJobRunning(t)
    /\ tasks'[t].job # tasks[t].job
    /\ tasks[t].job = "gsu-count"
    /\ CountGroup >= (IF tasks[t].found THEN tasks[t].last ELSE 0) + UPDATE_INTERVAL
    => tasks'[t].job = "gup-select"

C23_CheckObservesTrueDuringRecompute ==
    [][\A t \in TaskIds : C23_UserCheckStep(t) /\ C23_GroupCheckStep(t)]_vars

\* two message:send events of one user are both inside updateStyleProfile
C23_Witness ==
    \E t1, t2 \in TaskIds :
        /\ t1 # t2
        /\ tasks[t1].kind = "message:send" /\ tasks[t2].kind = "message:send"
        /\ tasks[t1].from = tasks[t2].from
        /\ tasks[t1].job \in UpdateStages /\ tasks[t2].job \in UpdateStages

\* two group:message:send events are both inside updateGroupStyleProfile
C23_GroupWitness ==
    \E t1, t2 \in TaskIds :
        /\ t1 # t2
        /\ tasks[t1].kind = "group:message:send"
        /\ tasks[t2].kind = "group:message:send"
        /\ tasks[t1].job \in GroupUpdateStages
        /\ tasks[t2].job \in GroupUpdateStages

(***************************************************************************)
(* C24: duplicate recomputes are benign: of two updateStyleProfile (or      *)
(* updateGroupStyleProfile) executions for one subject that overlap, both   *)
(* complete without error: no execution ends in a failed write.             *)
(***************************************************************************)
C24_DuplicateRecomputesComplete ==
    \A t \in TaskIds : tasks[t].job # "failed"

(***************************************************************************)
(* C25: no write of a style profile lowers its messageCount: every write    *)
(* stores a count at least as large as the one it replaces, also when two   *)
(* recomputes of one subject overlap.  (No step of the model is a reset.)   *)
(***************************************************************************)
C25_MessageCountNeverDecreases ==
    [][/\ \A u \in Users :
            styleProfiles[u].exists /\ styleProfiles'[u].exists
            => styleProfiles'[u].messageCount >= styleProfiles[u].messageCount
       /\ groupStyleProfile.exists /\ groupStyleProfile'.exists
            => groupStyleProfile'.messageCount >= groupStyleProfile.messageCount]_vars

(***************************************************************************)
(* C26: wherever a style profile row exists, its stylePrompt is the prompt  *)
(* rendered from the features stored in the same row.  C26_PromptMatches... *)
(* states it for every row; C26_PromptMatchesFeaturesOrEmpty allows the row  *)
(* that holds the empty features and no prompt, as the resets and           *)
(* createGroup write it.                                                    *)
(***************************************************************************)
RenderedFromFeatures(profile) ==
    profile.stylePrompt = GenerateStylePrompt(profile.features)

GroupRenderedFromFeatures(profile) ==
    profile.stylePrompt =
        GenerateGroupStylePrompt(profile.features,
                                 MemberNames(profile.features.memberContributions))

OwnRows(userId) ==
    PriorDirect[userId]
    + Cardinality({k \in DOMAIN messages :
                     messages[k].fromUserId = userId /\ ~messages[k].isAIGenerated})
    + Cardinality({k \in DOMAIN groupMessages :
                     /\ groupMessages[k].fromUserId = userId
                     /\ ~groupMessages[k].isAIGenerated})

MemberRows ==
    PriorGroup
    + Cardinality({k \in DOMAIN groupMessages : ~groupMessages[k].isAIGenerated})

C27_ReplyStep(t) ==
    /\ tasks[t].kind \in {"ai-friend:message", "group:ai:mention"}
    /\ tasks[t].pc = "reply"
    /\ tasks'[t].pc # "reply"
    => /\ \A u \in Users :
            /\ CountDirect(u)' = CountDirect(u)
            /\ CountGroupFrom(u)' = CountGroupFrom(u)
            /\ DirectLength(u)' = DirectLength(u)
            /\ GroupLengthFrom(u)' = GroupLengthFrom(u)
       /\ CountGroup' = CountGroup
       /\ AnalyzeGroupMessages' = AnalyzeGroupMessages

C27_WriteStep ==
    /\ \A u \in Users :
          styleProfiles'[u] # styleProfiles[u]
          => styleProfiles'[u].messageCount <= OwnRows(u)
    /\ groupStyleProfile' # groupStyleProfile
          => groupStyleProfile'.messageCount <= MemberRows

C27_GeneratedNeverFeedsStyle ==
    [][C27_WriteStep /\ \A t \in TaskIds : C27_ReplyStep(t)]_vars

\* the reply to u1 is stored with the generated flag and u1's recomputed
\* profile counts u1's own rows
C27_Witness ==
    /\ \E k \in DOMAIN messages :
          messages[k].isAIGenerated /\ messages[k].toUserId = "u1"
    /\ styleProfiles["u1"].messageCount > 1
    /\ styleProfiles["u1"].messageCount = OwnRows("u1")

(***************************************************************************)
(* C28: the profile job that message:send and group:message:send start      *)
(* never blocks or fails the message path: no step of the job, a failing    *)
(* one included, changes what the handler has emitted, its position or its  *)
(* error; the handler's next step is enabled whatever the job does; and an  *)
(* error event is emitted only for a failure of the handler's own calls.    *)
(***************************************************************************)
C28_JobStep(t) ==
    /\ tasks[t].kind \in {"message:send", "group:message:send"}
    /\ tasks[t].job \in UserJobStages \cup GroupJobStages
    /\ tasks'[t].job # tasks[t].job
    => /\ tasks'[t].pc = tasks[t].pc
       /\ tasks'[t].out = tasks[t].out
       /\ tasks'[t].err = tasks[t].err
       /\ tasks'[t].msg = tasks[t].msg

C28_NotBlocked(t) ==
    /\ tasks[t].kind = "message:send" /\ tasks[t].pc = "forward"
         => ENABLED MsForward(t)
    /\ tasks[t].kind = "group:message:send" /\ tasks[t].pc = "members"
         => ENABLED GsMembers(t)
    /\ tasks[t].kind = "group:message:send" /\ tasks[t].pc = "forward"
         => ENABLED GsForward(t)

C28_ErrorsAreTheHandlers(t) ==
    /\ tasks[t].kind \in {"message:send", "group:message:send"}
    /\ \E k \in DOMAIN tasks[t].out :
          tasks[t].out[k].name = ErrorEventOf(tasks[t].kind)
    => tasks[t].err \in {"persist", "check", "members", "lookup"}

C28_JobNeverBlocksOrFailsMessagePath ==
    /\ [][\A t \in TaskIds : C28_JobStep(t)]_vars
    /\ [](\A t \in TaskIds : C28_NotBlocked(t) /\ C28_ErrorsAreTheHandlers(t))

\* the job of a message:send failed and the handler forwarded and
\* acknowledged the message
C28_Witness ==
    \E t \in TaskIds :
        /\ tasks[t].kind = "message:send"
        /\ tasks[t].job = "failed"
        /\ tasks[t].pc = "done"
        /\ tasks[t].err = "none"
        /\ \E k \in DOMAIN tasks[t].out : tasks[t].out[k].name = "message:sent"
        /\ \E k \in DOMAIN tasks[t].out : tasks[t].out[k].name = "message:receive"

(***************************************************************************)
(* C29: a message with the generated flag is stored only for a stream that  *)
(* came from the provider: an invocation whose generator yielded a canned   *)
(* text (not enough data, or no style prompt) stores no generated message.  *)
(***************************************************************************)
C29_CannedStreamPersistsNothing ==
    \A t \in TaskIds :
        (/\ tasks[t].kind \in {"ai-friend:message", "group:ai:mention"}
         /\ tasks[t].full # <<>>
         /\ tasks[t].full[1] \in CannedTexts)
        => GeneratedContentsOf(t) = {}

(***************************************************************************)
(* C30: a started generation stream is not cancelled by the disconnect of   *)
(* the connection that asked for it: with that connection closed the        *)
(* handler's next step stays enabled, each step consumes the next chunk of  *)
(* the provider or its end, the step after the end stores the assembled     *)
(* text as a generated message, and nothing the handler emits arrives on    *)
(* the closed connection.                                                   *)
(***************************************************************************)
GenerationKinds == {"ai-friend:message", "group:ai:mention"}

C30_StepAfterClose(t) ==
    /\ tasks[t].kind \in GenerationKinds
    /\ tasks[t].pc \in {"stream", "reply"}
    /\ sock[tasks[t].sock] # "live"
    /\ tasks'[t].pc # tasks[t].pc \/ tasks'[t].full # tasks[t].full

C30_Continues(t) ==
    LET T == tasks[t]
        new == SubSeq(tasks'[t].out, Len(T.out) + 1, Len(tasks'[t].out))
        stored == IF T.kind = "ai-friend:message"
                  THEN /\ Len(messages') = Len(messages) + 1
                       /\ messages'[Len(messages')].isAIGenerated
                       /\ messages'[Len(messages')].content = T.full
                       /\ messages'[Len(messages')].toUserId = T.from
                  ELSE /\ Len(groupMessages') = Len(groupMessages) + 1
                       /\ groupMessages'[Len(groupMessages')].isAIGenerated
                       /\ groupMessages'[Len(groupMessages')].content = T.full
    IN  /\ SubSeq(tasks'[t].out, 1, Len(T.out)) = T.out
        /\ \A k \in DOMAIN new : T.sock \notin new[k].rcv
        /\ IF T.pc = "stream"
           THEN \/ /\ tasks'[t].pc = "reply"
                   /\ tasks'[t].full = T.full
                \/ /\ tasks'[t].pc \in {"stream", "chunk", "reply", "last-chunk"}
                   /\ Len(tasks'[t].full) = Len(T.full) + 1
                   /\ SubSeq(tasks'[t].full, 1, Len(T.full)) = T.full
           ELSE \/ stored /\ tasks'[t].pc \in {"done", "end"}
                \/ /\ T.kind = "group:ai:mention"
                   /\ ~GroupAIUserExists
                   /\ tasks'[t].pc = "done"

C30_Enabled(t) ==
    /\ tasks[t].kind = "ai-friend:message" /\ tasks[t].pc = "stream"
         => ENABLED AfStreamEnd(t)
    /\ tasks[t].kind = "ai-friend:message" /\ tasks[t].pc = "reply"
         => ENABLED AfReply(t)
    /\ tasks[t].kind = "group:ai:mention" /\ tasks[t].pc = "stream"
         => ENABLED GaGenerate(t)
    /\ tasks[t].kind = "group:ai:mention" /\ tasks[t].pc = "reply"
         => ENABLED GaReply(t)

C30_StreamNotCancelledByDisconnect ==
    /\ [][\A t \in TaskIds : C30_StepAfterClose(t) => C30_Continues(t)]_vars
    /\ [](\A t \in TaskIds :
            (tasks[t].kind \in GenerationKinds /\ sock[tasks[t].sock] # "live")
            => C30_Enabled(t))

\* u1 closed its connection after the first chunk; the handler consumed the
\* provider's stream to its end and stored the assembled text
C30_Witness ==
    \E t \in TaskIds :
        /\ tasks[t].kind = "ai-friend:message"
        /\ tasks[t].pc = "done"
        /\ sock[tasks[t].sock] # "live"
        /\ tasks[t].sent = MaxChunks
        /\ Len(tasks[t].full) = MaxChunks
        /\ Len(ReceivedChunks(t, tasks[t].sock)) = 1
        /\ tasks[t].full \in GeneratedContentsOf(t)

(***************************************************************************)
(* C31: the connections that receive group:ai:stream-end are those of the   *)
(* users who are members of the group and online when the final message is  *)
(* delivered: each step of the stream-end loop emits to a user who is a     *)
(* member at that moment, and when the loop ends every member with an open  *)
(* registered connection has received the event.                            *)
(***************************************************************************)
C31_EndStep(t) ==
    /\ tasks[t].kind = "group:ai:mention"
    /\ tasks[t].pc = "end"
    /\ tasks'[t].i # tasks[t].i \/ tasks'[t].pc # tasks[t].pc
    => /\ Len(tasks'[t].out) > Len(tasks[t].out)
            => IsUserInGroup(tasks[t].mem[tasks[t].i])
       /\ tasks'[t].pc = "done"
            => \A u \in Users :
                 (/\ IsUserInGroup(u)
                  /\ GetSocketByUser(u) # NoSocket
                  /\ sock[GetSocketByUser(u)] = "live")
                 => \E k \in DOMAIN tasks'[t].out :
                       /\ tasks'[t].out[k].name = "group:ai:stream-end"
                       /\ tasks'[t].out[k].user = u

C31_StreamEndToCurrentMembers ==
    [][\A t \in TaskIds : C31_EndStep(t)]_vars

(***************************************************************************)
(* C32: the two maps of the presence store agree once the calls that were   *)
(* started have ended: socket:<S>:user = U exactly if user:<U>:socket = S.  *)
(***************************************************************************)
C32_MapsConsistent ==
    Quiescent =>
      \A u \in Users : \A s \in Sockets :
          (socketUser[s] = u) <=> (userSocket[u] = s)

(***************************************************************************)
(* C33: a user whose only connection has completed handleConnection and    *)
(* has not started handleDisconnect is found by getSocketByUser under that  *)
(* connection's handle, at every moment, also after the time to live of     *)
(* the key has passed.                                                      *)
(***************************************************************************)
\* s is the only connection that ever carried userId; it is admitted and open
OnlyOpenConnection(userId, s) ==
    /\ data[s] = userId
    /\ \A s2 \in Sockets \ {s} : data[s2] # userId
    /\ connPc[s] = "done"
    /\ s \notin rejected
    /\ sock[s] = "live"
    /\ discPc[s] = "idle"

C33_ReachableWhileConnected ==
    \A u \in Users : \A s \in Sockets :
        OnlyOpenConnection(u, s) => GetSocketByUser(u) = s

(***************************************************************************)
(* C34: when handleGroupAIMention has ended, every connection that got     *)
(* group:ai:stream-start from it and is still connected also got            *)
(* group:ai:stream-end or group:ai:error from it, also when the recompute,  *)
(* the generation or sendGroupAIMessage threw.                              *)
(***************************************************************************)
\* socket s received the event `name' from the handler of task t
Received(t, s, name) ==
    \E k \in DOMAIN tasks[t].out :
        /\ tasks[t].out[k].name = name
        /\ s \in tasks[t].out[k].rcv

C34_StreamStartIsTerminated ==
    \A t \in TaskIds :
        (tasks[t].kind = "group:ai:mention" /\ tasks[t].pc = "done")
        => \A s \in Sockets :
             (sock[s] = "live" /\ Received(t, s, "group:ai:stream-start"))
             => \/ Received(t, s, "group:ai:stream-end")
                \/ Received(t, s, "group:ai:error")

(***************************************************************************)
(* C35: the events one ai-friend:message makes the handler emit to the      *)
(* connection that sent it.  As claimed: ai-friend:user-message-sent, then  *)
(* one ai-friend:stream-start, then chunks, then exactly one of             *)
(* ai-friend:stream-end and ai-friend:error, with stream-end only after the *)
(* assembled response is stored.  As it holds: that sequence when the       *)
(* user's message was stored, and ai-friend:error alone when it was not.    *)
(***************************************************************************)
\* the names of the events invocation t has emitted, in order
EventNames(t) == [k \in DOMAIN tasks[t].out |-> tasks[t].out[k].name]

AfTerminators == {"ai-friend:stream-end", "ai-friend:error"}

\* ai-friend:user-message-sent, ai-friend:stream-start, chunks and, once
\* the handler has ended, one terminating event as the last event
AfStreamSequence(t) ==
    LET e == EventNames(t)
        n == Len(e)
    IN  /\ n >= 2
        /\ e[1] = "ai-friend:user-message-sent"
        /\ e[2] = "ai-friend:stream-start"
        /\ \A k \in 3..n :
             \/ e[k] = "ai-friend:stream-chunk"
             \/ k = n /\ e[k] \in AfTerminators /\ tasks[t].pc = "done"
        /\ tasks[t].pc = "done" => n >= 3 /\ e[n] \in AfTerminators

\* every ai-friend:stream-end carries the id of a stored generated row of
\* the invocation whose content is the assembled response
AfEndAfterPersist(t) ==
    \A k \in DOMAIN tasks[t].out :
        tasks[t].out[k].name = "ai-friend:stream-end"
        => \E j \in DOMAIN messages :
              /\ messages[j].id = tasks[t].out[k].msg.id
              /\ messages[j].task = t
              /\ messages[j].isAIGenerated
              /\ messages[j].content = tasks[t].full

\* every event goes to the socket that sent ai-friend:message
AfToInitiator(t) ==
    \A k \in DOMAIN tasks[t].out : tasks[t].out[k].room = tasks[t].sock

\* C35 as claimed
C35_StreamProtocol ==
    \A t \in TaskIds :
        (tasks[t].kind = "ai-friend:message" /\ tasks[t].from # NoUser
           /\ tasks[t].out # <<>>)
        => AfStreamSequence(t) /\ AfEndAfterPersist(t) /\ AfToInitiator(t)

\* C35 as it holds: ai-friend:error alone, with nothing stored, when the
\* sendMessage of the user's message threw
C35_StreamProtocolOrErrorOnly ==
    \A t \in TaskIds :
        (tasks[t].kind = "ai-friend:message" /\ tasks[t].from # NoUser
           /\ tasks[t].out # <<>>)
        => /\ AfEndAfterPersist(t)
           /\ AfToInitiator(t)
           /\ IF tasks[t].msg = 0
              THEN /\ EventNames(t) = <<"ai-friend:error">>
                   /\ tasks[t].pc = "done"
                   /\ RowsOf(t) = {}
              ELSE AfStreamSequence(t)

\* u1's stream went start, two chunks, stream-end, all delivered; and the
\* error paths are reached in other runs
C35_Witness ==
    \E t \in TaskIds :
        /\ tasks[t].kind = "ai-friend:message"
        /\ tasks[t].pc = "done"
        /\ EventNames(t) = <<"ai-friend:user-message-sent", "ai-friend:stream-start",
                             "ai-friend:stream-chunk", "ai-friend:stream-chunk",
                             "ai-friend:stream-end">>
        /\ Len(tasks[t].full) = 2
        /\ \A k \in DOMAIN tasks[t].out : tasks[t].out[k].rcv = {tasks[t].sock}

\* the reply could not be stored after a chunk: the stream ends with the error
C35_ErrorWitness ==
    \E t \in TaskIds :
        /\ tasks[t].kind = "ai-friend:message"
        /\ tasks[t].pc = "done"
        /\ tasks[t].err = "db"
        /\ Len(tasks[t].out) >= 4
        /\ tasks[t].out[Len(tasks[t].out)].name = "ai-friend:error"

(***************************************************************************)
(* C36: the stream of the companion agent is private to its initiator:      *)
(* every ai-friend:* event made while handling an ai-friend:message is      *)
(* emitted to the socket that sent the message and arrives on no other,     *)
(* and no other handler emits an ai-friend:* event.                         *)
(***************************************************************************)
AfEvents == {"ai-friend:user-message-sent", "ai-friend:stream-start",
             "ai-friend:stream-chunk", "ai-friend:stream-end", "ai-friend:error"}

C36_CompanionStreamPrivate ==
    \A t \in TaskIds : \A k \in DOMAIN tasks[t].out :
        LET e == tasks[t].out[k]
        IN  IF tasks[t].kind = "ai-friend:message"
            THEN /\ e.name \in AfEvents
                 /\ e.room = tasks[t].sock
                 /\ e.rcv \subseteq {tasks[t].sock}
                 /\ e.user = tasks[t].from
            ELSE e.name \notin AfEvents

\* u1 sent ai-friend:message on one socket and registered a second socket
\* before the stream ended; u2 is connected; all events of the stream were
\* emitted, and none arrived on the second socket or on u2's
C36_Witness ==
    \E t \in TaskIds : \E s2 \in Sockets :
        /\ tasks[t].kind = "ai-friend:message"
        /\ tasks[t].pc = "done"
        /\ tasks[t].out[Len(tasks[t].out)].name = "ai-friend:stream-end"
        /\ s2 # tasks[t].sock
        /\ sock[s2] = "live"
        /\ userSocket[tasks[t].from] = s2
        /\ \E s3 \in Sockets : sock[s3] = "live" /\ data[s3] \notin {NoUser, tasks[t].from}
        /\ \A k \in DOMAIN tasks[t].out : s2 \notin tasks[t].out[k].rcv

(***************************************************************************)
(* C37: the generation state an ai-friend:message reaches (NOT_ENOUGH_DATA, *)
(* NO_MODEL or STREAMING) is the one the style profile stored when the      *)
(* message arrived gives, wherever the writes of the recompute the handler  *)
(* started without await fall among the reads of generateAIResponseStream.  *)
(***************************************************************************)
\* the state the generator reaches when both of its reads return row p
GenerationStateOf(p) ==
    IF ~(p.exists /\ p.messageCount >= MINIMUM_MESSAGES_REQUIRED)
    THEN "NOT_ENOUGH_DATA"
    ELSE IF p.stylePrompt = NoPrompt THEN "NO_MODEL" ELSE "STREAMING"

\* the state the generator of invocation t has reached, once it has
\* yielded a text or opened the provider stream
GenerationState(t) ==
    LET T == tasks[t]
    IN  CASE T.full # <<>> /\ T.full[1] = "learning" -> "NOT_ENOUGH_DATA"
          [] T.full # <<>> /\ T.full[1] = "analyzing" -> "NO_MODEL"
          [] T.full # <<>> /\ T.full[1] \notin {"learning", "analyzing"} -> "STREAMING"
          [] T.full = <<>> /\ T.pc \in {"stream", "reply"} -> "STREAMING"
          [] OTHER -> "pending"

\* the row of style_profiles of userId when the only inbound event of the
\* run arrives
ProfileAtArrival(userId) ==
    IF userId = "u2" THEN NoProfile ELSE FirstProfile

C37_StateIndependentOfRecompute ==
    \A t \in TaskIds :
        (tasks[t].kind = "ai-friend:message" /\ GenerationState(t) # "pending")
        => GenerationState(t) = GenerationStateOf(ProfileAtArrival(tasks[t].from))

(***************************************************************************)
(* C38: group:message:send and the membership of its sender.  As claimed:   *)
(* the sender is a member at the moment sendGroupMessage inserts the row,   *)
(* in every interleaving with a leaveGroup / removeMember of the sender.    *)
(* As it holds: the sender was a member when isUserInGroup answered, one    *)
(* await before the insert, and the handler inserts nothing else.           *)
(***************************************************************************)
\* invocation t of group:message:send inserts its row in this step
C38_InsertStep(t) ==
    /\ tasks[t].kind = "group:message:send"
    /\ tasks[t].pc = "persist"
    /\ tasks'[t].pc = "members"

\* C38 as claimed
C38_MemberAtPersistence ==
    [][\A t \in TaskIds : C38_InsertStep(t) => IsUserInGroup(tasks[t].from)]_vars

\* C38 as it holds
C38_MemberAtCheck ==
    [][\A t \in TaskIds :
         tasks'[t].kind = "group:message:send"
         => /\ (tasks'[t].pc = "persist" /\ tasks[t].pc # "persist")
                 => /\ tasks[t].kind = "group:message:send"
                    /\ tasks[t].pc = "check"
                    /\ IsUserInGroup(tasks[t].from)
            /\ RowsOf(t)' # RowsOf(t)
                 => /\ C38_InsertStep(t)
                    /\ RowsOf(t) = {}
                    /\ \A r \in RowsOf(t)' :
                          r.fromUserId = tasks[t].from /\ ~r.isAIGenerated]_vars

\* u2 passed the membership check and left the group before the insert:
\* the handler is about to store u2's message
C38_Witness ==
    \E t \in TaskIds :
        /\ tasks[t].kind = "group:message:send"
        /\ tasks[t].from = "u2"
        /\ tasks[t].pc = "persist"
        /\ ~IsUserInGroup("u2")
        /\ nLeaves = 1
        /\ ENABLED GsPersist(t)

(***************************************************************************)
(* C39: a reset is recoverable.  When shouldUpdateProfile is decided for a  *)
(* subject whose profile row is as the reset left it (count 0, no prompt)   *)
(* and who has at least the interval of eligible messages (10 for a user,   *)
(* 20 for a group), the answer is true and the recompute starts, which      *)
(* writes a rendered prompt.                                                *)
(***************************************************************************)
\* the row of userId is as resetStyleProfile left it
UserProfileReset(userId) ==
    /\ styleProfiles[userId].exists
    /\ styleProfiles[userId].messageCount = 0
    /\ styleProfiles[userId].stylePrompt = NoPrompt

\* the row of the group is as resetGroupStyleProfile left it
GroupProfileReset ==
    /\ groupStyleProfile.exists
    /\ groupStyleProfile.messageCount = 0
    /\ groupStyleProfile.stylePrompt = NoPrompt

\* the check that read the reset row of its user ends in this step
C39_UserStep(t) ==
    (/\ tasks[t].job = "su-group"
     /\ tasks'[t].job # tasks[t].job
     /\ tasks[t].last = 0
     /\ UserProfileReset(tasks[t].from)
     /\ tasks[t].cnt + CountGroupFrom(tasks[t].from) >= USER_UPDATE_INTERVAL)
    => tasks'[t].job = "up-direct"

\* the check that found the row of the group ends in this step
C39_GroupStep(t) ==
    (/\ tasks[t].job = "gsu-count"
     /\ tasks'[t].job # tasks[t].job
     /\ tasks[t].found
     /\ GroupProfileReset
     /\ CountGroup >= UPDATE_INTERVAL)
    => tasks'[t].job = "gup-select"

C39_ResetRecoverable ==
    [][\A t \in TaskIds : C39_UserStep(t) /\ C39_GroupStep(t)]_vars

(***************************************************************************)
(* Specifications                                                          *)
(***************************************************************************)
\* Sockets 1 and 2 have been admitted for u1 and u2; the others are not
\* open yet.
InitRouter ==
    /\ sock = [s \in Sockets |-> IF s <= 2 THEN "live" ELSE "new"]
    /\ data = [s \in Sockets |-> IF s <= 2 THEN UserOrder[s] ELSE NoUser]
    /\ connPc = [s \in Sockets |-> IF s <= 2 THEN "done" ELSE "idle"]
    /\ discPc = [s \in Sockets |-> "idle"]
    /\ discUser = [s \in Sockets |-> NoUser]
    /\ discSock = [s \in Sockets |-> NoSocket]
    /\ userSocket = [u \in Users |-> CASE u = "u1" -> 1 [] u = "u2" -> 2
                                        [] OTHER -> NoSocket]
    /\ socketUser = [s \in Sockets |-> IF s <= 2 THEN UserOrder[s] ELSE NoUser]
    /\ InitDb
    /\ statusOut = [s \in Sockets |->
                      IF s <= 2 THEN <<ServerEmitStatus(UserOrder[s], "online")>>
                      ELSE <<>>]
    /\ lastReg = userSocket
    /\ fenced = userSocket
    /\ rejected = {}
    /\ cleanClose = {}

Lifecycle ==
    \/ \E s \in Sockets : Connect(s)
    \/ \E s \in Sockets : ConnSessionInvalid(s)
    \/ \E s \in Sockets, u \in Users : ConnSessionValid(s, u)
    \/ \E s \in Sockets : ConnSetOnline1(s)
    \/ \E s \in Sockets : ConnSetOnline2(s)
    \/ \E s \in Sockets : Disconnect(s)
    \/ \E s \in Sockets : DiscGet(s)
    \/ \E s \in Sockets : DiscDel1(s)
    \/ \E s \in Sockets : DiscDel2(s)

DirectHandlers ==
    \/ \E s \in Sockets, u \in Users : HandleMessageSend(s, u)
    \/ \E t \in TaskIds : MsPersist(t)
    \/ \E t \in TaskIds : MsForward(t)
    \/ \E t \in TaskIds : StyleProfileJob(t)

AIFriendHandlers ==
    \/ \E s \in Sockets : HandleAIFriendMessage(s)
    \/ \E t \in TaskIds : AfPersist(t)
    \/ \E t \in TaskIds : AfMinimum(t)
    \/ \E t \in TaskIds : AfProfile(t)
    \/ \E t \in TaskIds : AfStreamChunk(t)
    \/ \E t \in TaskIds : AfProviderFail(t)
    \/ \E t \in TaskIds : AfStreamEnd(t)
    \/ \E t \in TaskIds : AfReply(t)

GroupHandlers ==
    \/ \E s \in Sockets : HandleGroupMessageSend(s)
    \/ \E t \in TaskIds : GsCheck(t)
    \/ \E t \in TaskIds : GsPersist(t)
    \/ \E t \in TaskIds : GsMembers(t)
    \/ \E t \in TaskIds : GsForward(t)
    \/ \E t \in TaskIds : GroupProfileJob(t)

GroupAIHandlers ==
    \/ \E s \in Sockets : HandleGroupAIMention(s)
    \/ \E t \in TaskIds : GaCheck(t)
    \/ \E t \in TaskIds : GaMembers(t)
    \/ \E t \in TaskIds : GaStart(t)
    \/ \E t \in TaskIds : GaGenerate(t)
    \/ \E t \in TaskIds : GaChunk(t)
    \/ \E t \in TaskIds : GaReply(t)
    \/ \E t \in TaskIds : GaEnd(t)

Membership ==
    \/ \E a \in AddIds : AddMember(a, "u2")
    \/ \E a \in AddIds : AddMemberCheck(a)
    \/ \E a \in AddIds : AddMemberInsert(a)
    \/ LeaveGroup("u2")

Failures ==
    \/ \E t \in TaskIds : MsPersistFail(t)
    \/ \E t \in TaskIds : MsLookupFail(t)
    \/ \E t \in TaskIds : GsDbFail(t)
    \/ \E t \in TaskIds : GsLookupFail(t)
    \/ \E t \in TaskIds : ProfileJobFail(t)

\* the connection lifecycle, from the start of the server
Next == Lifecycle

Spec == Init /\ [][Next]_vars

\* the inbound-event handlers next to the connection lifecycle; u2 may
\* leave the group
NextRouter ==
    \/ Lifecycle
    \/ DirectHandlers
    \/ AIFriendHandlers
    \/ GroupHandlers
    \/ GroupAIHandlers
    \/ LeaveGroup("u2")

SpecRouter == InitRouter /\ [][NextRouter]_vars

\* The companion agent with the failures of its handler's awaited queries,
\* beside the direct messages whose handler starts the same profile job.
NextFriend ==
    \/ Lifecycle
    \/ DirectHandlers
    \/ AIFriendHandlers
    \/ \E t \in TaskIds : AfDbFail(t)

SpecFriend == InitRouter /\ [][NextFriend]_vars

\* group messages while the membership of the group changes
NextGroup ==
    \/ Lifecycle
    \/ GroupHandlers
    \/ Membership

SpecGroup == InitRouter /\ [][NextGroup]_vars

\* the message handlers with failing database calls and store lookups
NextFault ==
    \/ Lifecycle
    \/ DirectHandlers
    \/ GroupHandlers
    \/ Failures

SpecFault == InitRouter /\ [][NextFault]_vars

\* A row of group_messages written before the run by u3 through
\* group:message:send.
PriorGroupRow(k) ==
    [id |-> k, fromUserId |-> "u3", content |-> PayloadContent,
     isAIGenerated |-> FALSE, task |-> 0]

\* As InitRouter, in a group whose members have since sent one message
\* fewer than GROUP_MINIMUM_MESSAGES_REQUIRED, or exactly that many.  The
\* group is as createGroup made it, or as a createGroup left it whose
\* insert of the style profile row failed: createGroup inserts the group,
\* its members, the row and the AI member one after the other outside a
\* transaction, so that failure leaves a group without row and AI member.
\* The run receives `slots' inbound events.
InitStyleSlots(slots) ==
    /\ sock = [s \in Sockets |-> IF s <= 2 THEN "live" ELSE "new"]
    /\ data = [s \in Sockets |-> IF s <= 2 THEN UserOrder[s] ELSE NoUser]
    /\ connPc = [s \in Sockets |-> IF s <= 2 THEN "done" ELSE "idle"]
    /\ discPc = [s \in Sockets |-> "idle"]
    /\ discUser = [s \in Sockets |-> NoUser]
    /\ discSock = [s \in Sockets |-> NoSocket]
    /\ userSocket = [u \in Users |-> CASE u = "u1" -> 1 [] u = "u2" -> 2
                                        [] OTHER -> NoSocket]
    /\ socketUser = [s \in Sockets |-> IF s <= 2 THEN UserOrder[s] ELSE NoUser]
    /\ messages = <<>>
    /\ \E n \in {GROUP_MINIMUM_MESSAGES_REQUIRED - 1,
                 GROUP_MINIMUM_MESSAGES_REQUIRED} :
           groupMessages = [k \in 1..n |-> PriorGroupRow(k)]
    /\ styleProfiles = [u \in Users |->
                          IF u = "u2" THEN NoProfile
                          ELSE FirstProfile]
    /\ \/ /\ groupMembers = <<"u1", "u2", "u3", GROUP_AI_USER_ID>>
          /\ groupStyleProfile = CreatedGroupProfile
       \/ /\ groupMembers = <<"u1", "u2", "u3">>
          /\ groupStyleProfile = NoGroupProfile
    /\ adds = [a \in AddIds |-> FreeAdd]
    /\ nLeaves = 0
    /\ tasks = [t \in 1..slots |-> FreeTask]
    /\ nTasks = 0
    /\ statusOut = [s \in Sockets |->
                      IF s <= 2 THEN <<ServerEmitStatus(UserOrder[s], "online")>>
                      ELSE <<>>]
    /\ lastReg = userSocket
    /\ fenced = userSocket
    /\ rejected = {}
    /\ cleanClose = {}

\* the group handlers and the group's AI member in a group with messages
NextStyle ==
    \/ Lifecycle
    \/ GroupHandlers
    \/ GroupAIHandlers

InitStyle == InitStyleSlots(MaxTasks)

SpecStyle == InitStyle /\ [][NextStyle]_vars

\* The store's expiry, failing deregisters and the end of the process, with
\* the connection lifecycle.  The store does drop a key whose time to live
\* has passed, whatever the gateway does.
Store ==
    \/ \E u \in Users : ExpireUserKey(u)
    \/ \E s \in Sockets : ExpireSocketKey(s)
    \/ \E s \in Sockets : DiscFail(s)
    \/ Crash

NextExpiry ==
    \/ Lifecycle
    \/ Store

SpecExpiry ==
    /\ Init
    /\ [][NextExpiry]_vars
    /\ \A u \in Users : WF_vars(ExpireUserKey(u))

\* Two inbound events of the gateway in flight at once: the handlers of
\* message:send and group:message:send with the profile jobs they start.
\* Socket.io runs a handler per inbound event and every await of a handler
\* yields to the others.
InitRecompute == InitStyleSlots(MaxSends)

NextRecompute ==
    \/ DirectHandlers
    \/ GroupHandlers

SpecRecompute == InitRecompute /\ [][NextRecompute]_vars

\* The handlers of message:send and group:message:send with the profile
\* jobs they start, and the resets of the profiles.
Resets ==
    \/ \E u \in Users : ResetStyleProfile(u)
    \/ ResetGroupStyleProfile

NextReset ==
    \/ DirectHandlers
    \/ GroupHandlers
    \/ Resets

SpecReset == InitRecompute /\ [][NextReset]_vars

====
